---- MODULE Spec2Model ----
(***************************************************************************)
(* WordNest blog client: Token Store, HTTP client (apiRequest), the Domain *)
(* API modules (authAPI, postsAPI, userAPI), the Session Context           *)
(* (AuthProvider), the Posts view and the Profile view.                    *)
(*                                                                         *)
(* Strings built by the code are modelled as sequences of words, so that   *)
(* `a ${b}` is concatenation and String.includes is membership of a word.  *)
(***************************************************************************)
EXTENDS Integers, Sequences, FiniteSets, Bags, TLC

\* ------------------------------------------------------------------ bounds
\* Number of requests apiRequest issues in one run.
MaxRequests == 2

\* ------------------------------------------------------- values and inputs
\* Bearer tokens a backend hands out / a previous page load left in storage.
Tokens == {"t1", "t2"}
\* localStorage.getItem('token') === null
NoToken == "null"
\* User objects the backend returns, named by their username.
Users == {"alice", "bob"}
\* JavaScript null / undefined as values of the session's `user`.
Null == "null"
Undefined == "undefined"
\* An absent (or empty, equally falsy) string field of a JSON body.
NoText == <<>>
\* An absent header.
NoHeader == <<>>
\* error.status of an Error object that never got one (undefined, falsy).
NoStatus == 0

Statuses == {200, 401, 404, 500}

\* Template literal `${response.status}`.
StatusStr(s) ==
    CASE s = 200 -> "200"
      [] s = 401 -> "401"
      [] s = 404 -> "404"
      [] s = 500 -> "500"

\* response.statusText: the reason phrase over HTTP/1.1, empty over HTTP/2.
ReasonPhrase(s) ==
    CASE s = 200 -> "OK"
      [] s = 401 -> "Unauthorized"
      [] s = 404 -> "Not Found"
      [] s = 500 -> "Internal Server Error"

StatusTexts(s) == {"", ReasonPhrase(s)}

\* Texts a backend puts in the `error` / `message` field of an error body.
ErrorTexts == {<<"Invalid", "token">>}
MessageTexts == {<<"Not", "found">>}

\* A response body as response.json() sees it.
\*   shape "nonjson": json() rejects (HTML page, empty body)
\*   shape "null"   : the JSON value null
\*   shape "object" : a JSON object (or any other non-null JSON value, whose
\*                    property reads give undefined) with these fields
\* For /api/user/profile the body IS the user object; `user` names it.
Body(shape, e, m, t, u) ==
    [shape |-> shape, error |-> e, message |-> m, token |-> t, user |-> u]

NonJsonBody == Body("nonjson", NoText, NoText, "", Undefined)
NullBody == Body("null", NoText, NoText, "", Undefined)
\* error.data of an Error object that never got one.
NoData == Body("none", NoText, NoText, "", Undefined)

\* Every body: any shape, any combination of fields.
AllBodies ==
    {NonJsonBody, NullBody} \cup
    { Body("object", e, m, t, u) :
        e \in ErrorTexts \cup {NoText}, m \in MessageTexts \cup {NoText},
        t \in Tokens \cup {""}, u \in Users \cup {Undefined} }

\* Bodies of 2xx responses: the fields the callers read are token and user.
SuccessBodies ==
    {NonJsonBody, NullBody} \cup
    { Body("object", NoText, NoText, t, u) :
        t \in Tokens \cup {""}, u \in Users \cup {Undefined} }

\* Bodies of non-2xx responses: the fields apiRequest reads are error and message.
ErrorBodies ==
    {NonJsonBody, NullBody, Body("object", NoText, NoText, "", Undefined)} \cup
    { Body("object", e, NoText, "", Undefined) : e \in ErrorTexts } \cup
    { Body("object", NoText, m, "", Undefined) : m \in MessageTexts }

\* response.statusText only shows in the generic message.
ReadsStatusText(b) == b.shape = "nonjson" \/ (b.error = NoText /\ b.message = NoText)

Ok(status) == status >= 200 /\ status <= 299

\* What fetch() settles with: a rejection (no response received) or a response.
FetchRejected ==
    [received |-> FALSE, status |-> NoStatus, statusText |-> "", body |-> NonJsonBody]

Response(status, statusText, body) ==
    [received |-> TRUE, status |-> status, statusText |-> statusText, body |-> body]

AllResponses ==
    {FetchRejected} \cup
    UNION { { Response(s, st, b) : st \in StatusTexts(s), b \in AllBodies } : s \in Statuses }

\* The responses the application is run against: one representative of each
\* class of AllResponses that its handlers can tell apart.
Responses ==
    {FetchRejected} \cup
    UNION { IF Ok(s)
            THEN { Response(s, ReasonPhrase(s), b) : b \in SuccessBodies }
            ELSE { Response(s, st, b) : st \in StatusTexts(s), b \in ErrorBodies }
                 \ { Response(s, "", b) : b \in { x \in ErrorBodies : ~ReadsStatusText(x) } }
          : s \in Statuses }

\* ------------------------------------------------------------- Token Store
getToken(store) == store

setToken(store, t) == t

removeToken(store) == NoToken

\* JavaScript truthiness of a token / string value.
Truthy(t) == t \notin {"", NoToken, Undefined}

\* ------------------------------------------------------------- HTTP client
\* `Bearer ${token}`
Bearer(t) == <<"Bearer", t>>

\* A request body: its encoding and the fields it carries.
RequestBody(enc, fields) == [enc |-> enc, fields |-> fields]

NoBody == RequestBody("none", {})

JsonBody(fields) == RequestBody("json", fields)

FormData(fields) == RequestBody("formdata", fields)

\* options.body instanceof FormData
isFormData(body) == body.enc = "formdata"

ContentTypeHeader(body) ==
    IF ~isFormData(body) THEN <<"application/json">> ELSE NoHeader

\* Mutant: the scheme is left out of the header.
AuthorizationHeaderNoScheme(tok) ==
    IF Truthy(tok) THEN <<tok>> ELSE NoHeader

AuthorizationHeader(tok) ==
    IF Truthy(tok) THEN Bearer(tok) ELSE NoHeader

\* The headers apiRequest hands to fetch (no caller passes options.headers).
RequestHeaders(tok, body) ==
    [contentType |-> ContentTypeHeader(body), authorization |-> AuthorizationHeader(tok)]

\* An Error object: name, message and the ad hoc status / data properties.
MkError(name, status, message, data) ==
    [name |-> name, status |-> status, message |-> message, data |-> data]

NoError == MkError("none", NoStatus, NoText, NoData)

\* String.prototype.includes, on the words of a message.
Includes(message, word) == \E i \in DOMAIN message : message[i] = word

\* `Server error: ${response.status} ${response.statusText}`
ServerErrorMessage(status, statusText) ==
    <<"Server", "error:", StatusStr(status)>> \o
        (IF statusText = "" THEN <<>> ELSE <<statusText>>)

InvalidResponseMessage == <<"Invalid", "response", "from", "server">>

CannotConnectMessage == <<"Cannot", "connect", "to", "server">>

NetworkErrorMessage == <<"Network", "error">>

\* TypeError thrown by fetch when no response is received.
FetchTypeError == MkError("TypeError", NoStatus, <<"Failed to fetch">>, NoData)

\* TypeError thrown by reading a property of null.
NullReadTypeError ==
    MkError("TypeError", NoStatus, <<"Cannot", "read", "properties", "of", "null">>, NoData)

\* data.error || data.message || `Server error: ...`
ErrorMessageOf(data, status, statusText) ==
    IF data.error # NoText THEN data.error
    ELSE IF data.message # NoText THEN data.message
    ELSE ServerErrorMessage(status, statusText)

Threw(e) == [ok |-> FALSE, data |-> NoData, error |-> e]

Returned(data) == [ok |-> TRUE, data |-> data, error |-> NoError]

\* Mutant: the catch block takes every error without a status for a
\* connectivity failure.
ApiCatchAllConnect(e) ==
    IF e.status # NoStatus THEN Threw(e)
    ELSE Threw(MkError("Error", NoStatus, CannotConnectMessage, NoData))

\* The outer catch block of apiRequest.
ApiCatch(e) ==
    IF e.status # NoStatus THEN Threw(e)
    ELSE IF \/ Includes(e.message, "Failed to fetch")
            \/ Includes(e.message, "ERR_CONNECTION_REFUSED")
            \/ Includes(e.message, "NetworkError")
            \/ e.name = "TypeError"
         THEN Threw(MkError("Error", NoStatus, CannotConnectMessage, NoData))
    ELSE Threw(MkError("Error", NoStatus,
                       IF e.message # NoText THEN e.message ELSE NetworkErrorMessage,
                       NoData))

\* The status property the error thrown for a parsed non-2xx body gets.
ErrorStatus(resp) == resp.status

\* What apiRequest settles with once fetch has settled with resp.
ApiResponse(resp) ==
    IF ~resp.received THEN ApiCatch(FetchTypeError)
    ELSE IF resp.body.shape = "nonjson" THEN
        IF ~Ok(resp.status)
        THEN ApiCatch(MkError("Error", NoStatus,
                              ServerErrorMessage(resp.status, resp.statusText), NoData))
        ELSE ApiCatch(MkError("Error", NoStatus, InvalidResponseMessage, NoData))
    ELSE IF ~Ok(resp.status) THEN
        IF resp.body.shape = "null" THEN ApiCatch(NullReadTypeError)
        ELSE ApiCatch(MkError("Error", ErrorStatus(resp),
                              ErrorMessageOf(resp.body, resp.status, resp.statusText),
                              resp.body))
    ELSE Returned(resp.body)

\* ------------------------------------------------------------------- state
VARIABLES
    token,            \* Token Store: localStorage['token'] (NoToken when absent)
    user,             \* AuthProvider state: user
    isAuthenticated,  \* AuthProvider state: isAuthenticated
    loading,          \* AuthProvider state: loading
    probePc,          \* startup effect: "init" (not run), "wait" (fetch pending), "done"
    inflight,         \* bag of requests handed to fetch and not yet settled
    issued,           \* number of requests issued so far
    lastOp,           \* the handler that ran last and the context operations it called
    ret,              \* what the last settled call returned / threw to its caller
    pvMounted,        \* Profile view: mount effect has run
    profile,          \* Profile view state: profile
    editForm,         \* Profile view state: editForm
    pvError,          \* Profile view state: error
    pvLoading,        \* Profile view state: loading
    navigated,        \* last navigate() target ("" when none)
    feedMounted,      \* Posts view: mount effect has run
    posts,            \* Posts view state: posts
    pagination,       \* Posts view state: pagination
    currentPage,      \* Posts view state: currentPage
    feedLoading,      \* Posts view state: loading
    feedError,        \* Posts view state: error
    showCreateForm,   \* Posts view state: showCreateForm
    newPost,          \* Posts view state: newPost
    imagePreview,     \* Posts view state: imagePreview
    creating,         \* Posts view state: creating
    formError,        \* Posts view state: formError
    stats,            \* Profile view state: stats
    userPosts,        \* Profile view state: userPosts
    postsPagination,  \* Profile view state: postsPagination
    pvPage,           \* Profile view state: currentPage
    loadingPosts,     \* Profile view state: loadingPosts
    isEditing,        \* Profile view state: isEditing
    editError,        \* Profile view state: editError
    saving,           \* Profile view state: saving
    profilePictureFile,    \* Profile view state: profilePictureFile
    profilePicturePreview, \* Profile view state: profilePicturePreview
    pictureError,     \* Profile view state: pictureError
    editingPostId,    \* Profile view state: editingPostId
    editPost,         \* Profile view state: editPost
    editImagePreview, \* Profile view state: editImagePreview
    updating,         \* Profile view state: updating
    postEditError,    \* Profile view state: postEditError
    readers,          \* FileReader reads started and not yet ended: <<form, file>>
    fetched,          \* apiRequest in isolation: what fetch settled with
    settled           \* apiRequest in isolation: what apiRequest settled with

sessionVars == <<token, user, isAuthenticated, loading, probePc>>
netVars == <<inflight, issued>>
profileVars == <<pvMounted, profile, editForm, pvError, pvLoading, navigated>>
apiVars == <<fetched, settled>>
feedVars == <<feedMounted, posts, pagination, currentPage, feedLoading, feedError>>
createVars == <<showCreateForm, newPost, imagePreview, creating, formError>>
listVars == <<stats, userPosts, postsPagination, pvPage, loadingPosts>>
editVars == <<isEditing, editError, saving>>
pictureVars == <<profilePictureFile, profilePicturePreview, pictureError>>
postEditVars == <<editingPostId, editPost, editImagePreview, updating, postEditError>>
viewVars == <<feedVars, createVars, listVars, editVars, pictureVars, postEditVars, readers>>
vars == <<sessionVars, netVars, lastOp, ret, profileVars, apiVars, viewVars>>

\* A JSON object with no username.
EmptyObject == "{}"

\* The value `data` of a successful /api/user/profile call, as a user value.
ProfileValue(data) ==
    IF data.shape = "null" THEN Null
    ELSE IF data.user = Undefined THEN EmptyObject
    ELSE data.user

\* JavaScript truthiness of a user value.
TruthyUser(u) == u \notin {Null, Undefined}

\* The fields of a user object: alice has a bio, bob's bio is null; an object
\* without username has none of them.
UsernameOf(u) == IF u \in Users THEN u ELSE Undefined

EmailOf(u) ==
    CASE u = "alice" -> "alice@x"
      [] u = "bob" -> "bob@x"
      [] OTHER -> Undefined

BioOf(u) ==
    CASE u = "alice" -> "bio"
      [] u = "bob" -> Null
      [] OTHER -> Undefined

\* value || ''
OrBlank(v) == IF Truthy(v) THEN v ELSE ""

EditForm(username, email, bio) == [username |-> username, email |-> email, bio |-> bio]

\* {username: u.username || '', email: u.email || '', bio: u.bio || ''}
FormOf(u) == EditForm(OrBlank(UsernameOf(u)), OrBlank(EmailOf(u)), OrBlank(BioOf(u)))

\* useState({username: '', email: '', bio: ''})
BlankForm == EditForm("", "", "")

\* ------------------------------------------------------- files and images
\* Files the user can pick, named by their file name.
Files == {"a.png", "b.jpg", "c.gif", "d.webp", "e.pdf"}

\* e.target.files[0] when the file dialog was cancelled.
NoFile == "null"

\* file.type
FileType(f) ==
    CASE f = "a.png" -> "image/png"
      [] f = "b.jpg" -> "image/jpeg"
      [] f = "c.gif" -> "image/gif"
      [] f = "d.webp" -> "image/webp"
      [] f = "e.pdf" -> "application/pdf"

\* const maxSize = 5 * 1024 * 1024
maxSize == 5 * 1024 * 1024

\* file.size, in bytes
FileSize(f) ==
    CASE f = "a.png" -> 1024
      [] f = "b.jpg" -> maxSize
      [] f = "c.gif" -> maxSize + 1
      [] f = "d.webp" -> 6 * 1024 * 1024
      [] f = "e.pdf" -> 1024

allowedTypes == {"image/jpeg", "image/jpg", "image/png", "image/gif", "image/webp"}

InvalidFileType ==
    <<"Invalid", "file", "type.", "Only", "JPEG,", "PNG,", "GIF,", "and", "WebP",
      "images", "are", "allowed.">>

FileTooLarge == <<"File", "too", "large.", "Maximum", "size", "is", "5MB.">>

\* FileError refusing a file of maxSize bytes too.
FileErrorAtLimit(f) ==
    IF FileType(f) \notin allowedTypes THEN InvalidFileType
    ELSE IF FileSize(f) >= maxSize THEN FileTooLarge
    ELSE NoText

\* The error the three image handlers set for a file, NoText when they accept it.
FileError(f) ==
    IF FileType(f) \notin allowedTypes THEN InvalidFileType
    ELSE IF FileSize(f) > maxSize THEN FileTooLarge
    ELSE NoText

\* reader.result of readAsDataURL(file)
DataUrl(f) == <<"data:", FileType(f), f>>

\* imagePreview / editImagePreview / profilePicturePreview without preview.
NoPreview == <<>>

\* ------------------------------------------------------ lists and pagination
\* post_count of a user object that has none.
NoCount == -1

\* profile.post_count
PostCountOf(u) ==
    CASE u = "alice" -> 2
      [] u = "bob" -> 0
      [] OTHER -> NoCount

\* The value of `stats`: null, or an object {total_posts, latest_post_date}.
Stats(kind, total, latest) == [kind |-> kind, total_posts |-> total, latest_post_date |-> latest]

NullStats == Stats("null", NoCount, Undefined)

\* The stats the backend reports.
ServerStats == Stats("object", 2, "2024-01-01")

\* setStats(data)
StatsOf(data) == IF data.shape = "null" THEN NullStats ELSE ServerStats

\* {total_posts: profile?.post_count ?? 0, latest_post_date: null}
DefaultStats(p) == Stats("object", IF PostCountOf(p) = NoCount THEN 0 ELSE PostCountOf(p), Null)

\* Page numbers a list is requested for / totalPages values a backend reports.
Pages == {1, 2}

\* The `posts` array of a list response is named by the page it shows; [] is 0.
EmptyList == 0

\* The ids of the posts on a page.
PostsOf(list) ==
    CASE list = 1 -> {1, 2}
      [] list = 2 -> {3}
      [] OTHER -> {}

\* post.title / post.content of the posts the backend lists.
TitleOf(id) == "T"

ContentOf(id) == "C"

Pagination(page, total) ==
    [currentPage |-> page, totalPages |-> total,
     hasPreviousPage |-> page > 1, hasNextPage |-> page < total]

\* pagination === null / a body without pagination: totalPages reads undefined.
NoPagination == [currentPage |-> 0, totalPages |-> 0,
                 hasPreviousPage |-> FALSE, hasNextPage |-> FALSE]

\* {posts, pagination} bodies.
ListBody(list, pag) ==
    [shape |-> "object", error |-> NoText, message |-> NoText, token |-> "",
     user |-> Undefined, posts |-> list, pagination |-> pag]

\* A request for a list page: /api/posts?page=..&limit=10, /api/user/posts?..
PostsUrl(page) == IF page = 1 THEN "/api/posts?page=1&limit=10" ELSE "/api/posts?page=2&limit=10"

UserPostsUrl(page) ==
    IF page = 1 THEN "/api/user/posts?page=1&limit=10" ELSE "/api/user/posts?page=2&limit=10"

\* `/api/posts/${id}` for the posts the lists show.
PostUrl(id) ==
    CASE id = 1 -> "/api/posts/1"
      [] id = 2 -> "/api/posts/2"
      [] OTHER -> "/api/posts/3"

PageOfUrl(url) == IF url \in {PostsUrl(1), UserPostsUrl(1)} THEN 1 ELSE 2

\* Responses whose body carries neither token nor user.
PlainResponses == { r \in Responses : r.body.token = "" /\ r.body.user = Undefined }

\* What a backend answers to a request for a page of a list: a failure, a body
\* without posts and pagination, or the page out of `total` pages.
ListResponses(page) ==
    { r \in PlainResponses : ~Ok(r.status) \/ r.body.shape # "object" } \cup
    { Response(200, ReasonPhrase(200), ListBody(EmptyList, NoPagination)) } \cup
    { Response(200, ReasonPhrase(200),
               ListBody(IF page <= total THEN page ELSE EmptyList, Pagination(page, total)))
        : total \in Pages }

\* A request as handed to fetch. `snap` is the value of `user` the calling
\* closure captured (only fetchProfile reads it when the call settles).
Request(op, endpoint, method, body, snap) ==
    [op |-> op, endpoint |-> endpoint, method |-> method,
     headers |-> RequestHeaders(getToken(token), body), body |-> body, snap |-> snap]

\* apiRequest up to its `await fetch(...)`.
Send(req) ==
    /\ issued < MaxRequests
    /\ inflight' = inflight (+) SetToBag({req})
    /\ issued' = issued + 1

\* fetch settles the request.
Settle(req) ==
    /\ BagIn(req, inflight)
    /\ inflight' = inflight (-) SetToBag({req})
    /\ UNCHANGED issued

\* What the history keeps of a response: whether one was received, its status,
\* the shape of its body and the token and user the body carries.
Seen(resp) ==
    [received |-> resp.received, status |-> resp.status, statusText |-> "",
     body |-> Body(resp.body.shape, NoText, NoText, resp.body.token, resp.body.user)]

\* History of the last step: the handler that ran, the Session Context
\* operations it called, and the response fetch settled with (for a step that
\* starts from the settling of a fetch).
Op(name, ctx) == [name |-> name, ctx |-> ctx, resp |-> Seen(FetchRejected)]

Done(name, ctx, resp) == [name |-> name, ctx |-> ctx, resp |-> Seen(resp)]

Ret(op, success, error) == [op |-> op, success |-> success, error |-> error]

PendingOutcome == [ok |-> FALSE, data |-> NoData, error |-> NoError]

\* No request issued yet, no file being read.
InitNet ==
    /\ inflight = EmptyBag
    /\ issued = 0
    /\ lastOp = Op("init", {})
    /\ ret = Ret("none", FALSE, NoText)
    /\ navigated = ""
    /\ readers = {}

\* Posts before its mount effect: the useState initial values.
InitPostsList ==
    /\ feedMounted = FALSE
    /\ posts = EmptyList
    /\ pagination = NoPagination
    /\ currentPage = 1
    /\ feedLoading = TRUE
    /\ feedError = NoText

InitCreateForm ==
    /\ showCreateForm = FALSE
    /\ newPost = [title |-> "", content |-> "", image |-> NoFile]
    /\ imagePreview = NoPreview
    /\ creating = FALSE
    /\ formError = NoText

\* Profile before its mount effect: the useState initial values.
InitProfileData ==
    /\ pvMounted = FALSE
    /\ profile = Null
    /\ editForm = BlankForm
    /\ pvError = NoText
    /\ pvLoading = TRUE
    /\ stats = NullStats
    /\ userPosts = EmptyList
    /\ postsPagination = NoPagination
    /\ pvPage = 1
    /\ loadingPosts = FALSE

InitProfileForms ==
    /\ isEditing = FALSE
    /\ editError = NoText
    /\ saving = FALSE
    /\ profilePictureFile = NoFile
    /\ profilePicturePreview = NoPreview
    /\ pictureError = NoText
    /\ editingPostId = 0
    /\ editPost = [title |-> "", content |-> "", image |-> NoFile]
    /\ editImagePreview = NoPreview
    /\ updating = FALSE
    /\ postEditError = NoText

\* No request issued, no view mounted.
InitViews ==
    /\ InitNet
    /\ InitPostsList
    /\ InitCreateForm
    /\ InitProfileData
    /\ InitProfileForms

InitApp ==
    /\ token \in Tokens \cup {NoToken}
    /\ user = Null
    /\ loading = TRUE
    /\ isAuthenticated = FALSE
    /\ probePc = "init"
    /\ InitViews

Init ==
    /\ InitApp
    /\ fetched = FetchRejected
    /\ settled = PendingOutcome

\* ---------------------------------------------------------- Session Context
\* Mutant: authAPI.logout leaves the token in the store.
authLogoutKeepsToken == UNCHANGED token

\* authAPI.logout(): removeToken().
authLogout == token' = removeToken(token)

\* Mutant: logout does not reset the user.
logoutKeepsUser ==
    /\ token' = removeToken(token)
    /\ isAuthenticated' = FALSE
    /\ UNCHANGED user

\* AuthProvider.logout.
logout ==
    /\ authLogout
    /\ user' = Null
    /\ isAuthenticated' = FALSE

\* AuthProvider.updateUser.
updateUser(userData) == user' = userData

\* Mutant: setLoading(false) sits inside the `if (token)` block.
StartupProbeLoadingInsideIf ==
    /\ probePc = "init"
    /\ IF Truthy(getToken(token))
       THEN /\ inflight' = inflight (+) SetToBag({[op |-> "probe", endpoint |-> "/api/user/profile",
                    method |-> "GET", headers |-> RequestHeaders(getToken(token), NoBody),
                    body |-> NoBody, snap |-> Undefined]})
            /\ issued' = issued + 1
            /\ probePc' = "wait"
            /\ UNCHANGED loading
       ELSE /\ probePc' = "done"
            /\ UNCHANGED <<loading, inflight, issued>>
    /\ lastOp' = [name |-> "probe", ctx |-> {"probe"},
                  resp |-> [received |-> FALSE, status |-> NoStatus, statusText |-> "",
                            body |-> NonJsonBody]]
    /\ UNCHANGED <<token, user, isAuthenticated, ret, pvMounted, profile, editForm,
                   pvError, pvLoading, navigated, fetched, settled, viewVars>>

\* The mount effect of AuthProvider, up to the first await.
StartupProbe ==
    /\ probePc = "init"
    /\ IF Truthy(getToken(token))
       THEN /\ Send(Request("probe", "/api/user/profile", "GET", NoBody, Undefined))
            /\ probePc' = "wait"
            /\ UNCHANGED loading
       ELSE /\ loading' = FALSE
            /\ probePc' = "done"
            /\ UNCHANGED netVars
    /\ lastOp' = Op("probe", {"probe"})
    /\ UNCHANGED <<token, user, isAuthenticated, ret, profileVars, apiVars, viewVars>>

\* The mount effect of AuthProvider, from the settling of getProfile on.
ProbeSettled(req, resp) ==
    /\ req.op = "probe"
    /\ probePc = "wait"
    /\ Settle(req)
    /\ LET out == ApiResponse(resp) IN
       IF out.ok
       THEN /\ user' = ProfileValue(out.data)
            /\ isAuthenticated' = TRUE
            /\ UNCHANGED token
       ELSE /\ authLogout
            /\ isAuthenticated' = FALSE
            /\ UNCHANGED user
    /\ loading' = FALSE
    /\ probePc' = "done"
    /\ lastOp' = Done("probeSettled", {"probe"}, resp)
    /\ UNCHANGED <<ret, profileVars, apiVars, viewVars>>

AuthEndpoint(op) == IF op = "login" THEN "/api/auth/login" ELSE "/api/auth/signup"

AuthFields(op) ==
    IF op = "login" THEN {"email", "password"} ELSE {"username", "email", "password"}

\* AuthProvider.login / signup -> authAPI.login / signup, up to the fetch.
LoginCall(op) ==
    /\ probePc # "init"
    /\ Send(Request(op, AuthEndpoint(op), "POST", JsonBody(AuthFields(op)), Undefined))
    /\ lastOp' = Op(op, {op})
    /\ UNCHANGED <<sessionVars, ret, profileVars, apiVars, viewVars>>

\* Mutant: setToken is never called.
AuthApiSettledNoStore(out) ==
    IF ~out.ok THEN [threw |-> TRUE, error |-> out.error, store |-> token]
    ELSE IF out.data.shape = "null"
         THEN [threw |-> TRUE, error |-> NullReadTypeError, store |-> token]
    ELSE [threw |-> FALSE, error |-> NoError, store |-> token]

\* Mutant: a failed login clears the stored token, as the startup probe does.
AuthApiSettledClears(out) ==
    IF ~out.ok THEN [threw |-> TRUE, error |-> out.error, store |-> removeToken(token)]
    ELSE IF out.data.shape = "null"
         THEN [threw |-> TRUE, error |-> NullReadTypeError, store |-> removeToken(token)]
    ELSE IF Truthy(out.data.token)
         THEN [threw |-> FALSE, error |-> NoError, store |-> setToken(token, out.data.token)]
    ELSE [threw |-> FALSE, error |-> NoError, store |-> token]

\* authAPI.login / signup after apiRequest settled: the token it stores, or
\* the error it throws.
AuthApiSettled(out) ==
    IF ~out.ok THEN [threw |-> TRUE, error |-> out.error, store |-> token]
    ELSE IF out.data.shape = "null"
         THEN [threw |-> TRUE, error |-> NullReadTypeError, store |-> token]
    ELSE IF Truthy(out.data.token)
         THEN [threw |-> FALSE, error |-> NoError, store |-> setToken(token, out.data.token)]
    ELSE [threw |-> FALSE, error |-> NoError, store |-> token]

\* AuthProvider.login / signup from the settling of the fetch on.
LoginSettled(req, resp) ==
    /\ req.op \in {"login", "signup"}
    /\ Settle(req)
    /\ LET out == ApiResponse(resp)
           api == AuthApiSettled(out) IN
       /\ token' = api.store
       /\ IF api.threw
          THEN /\ ret' = Ret(req.op, FALSE, api.error.message)
               /\ UNCHANGED <<user, isAuthenticated>>
          ELSE /\ user' = out.data.user
               /\ isAuthenticated' = TRUE
               /\ ret' = Ret(req.op, TRUE, NoText)
    /\ lastOp' = Done("loginSettled", {req.op}, resp)
    /\ UNCHANGED <<loading, probePc, profileVars, apiVars, viewVars>>

\* A view calls AuthProvider.logout (Posts.handleLogout).
Logout ==
    /\ probePc # "init"
    /\ logout
    /\ lastOp' = Op("logout", {"logout"})
    /\ UNCHANGED <<loading, probePc, netVars, ret, profileVars, apiVars, viewVars>>

\* AuthProvider.refreshProfile up to the fetch.
RefreshCall ==
    /\ probePc # "init"
    /\ Send(Request("refreshProfile", "/api/user/profile", "GET", NoBody, Undefined))
    /\ lastOp' = Op("refreshProfile", {"refreshProfile"})
    /\ UNCHANGED <<sessionVars, ret, profileVars, apiVars, viewVars>>

\* Mutant: a failed refresh resets the user.
RefreshCatchUserReset(u) == Null

\* Mutant: a successful refresh marks the session authenticated, as login does.
RefreshAuthTrue(a) == TRUE

\* What refreshProfile leaves in `user` when getProfile threw.
RefreshCatchUser(u) == u

\* What refreshProfile leaves in isAuthenticated when getProfile returned.
RefreshAuth(a) == a

\* AuthProvider.refreshProfile from the settling of the fetch on.
RefreshSettled(req, resp) ==
    /\ req.op = "refreshProfile"
    /\ Settle(req)
    /\ LET out == ApiResponse(resp) IN
       IF out.ok
       THEN /\ user' = ProfileValue(out.data)
            /\ isAuthenticated' = RefreshAuth(isAuthenticated)
            /\ ret' = Ret("refreshProfile", TRUE, NoText)
       ELSE /\ user' = RefreshCatchUser(user)
            /\ UNCHANGED isAuthenticated
            /\ ret' = Ret("refreshProfile", FALSE, out.error.message)
    /\ lastOp' = Done("refreshSettled", {"refreshProfile"}, resp)
    /\ UNCHANGED <<token, loading, probePc, profileVars, apiVars, viewVars>>

\* ------------------------------------------------------------- Profile view
ProfileUnavailableNote ==
    <<"Note:", "Profile", "endpoint", "not", "available">>

ProfileNotFoundMessage ==
    <<"Profile", "endpoint", "not", "found", "(404)">>

UnauthorizedMessage == <<"Unauthorized", "Please log in again">>

FailedToFetchProfile == <<"Failed", "to", "fetch", "profile">>

\* Profile's mount effect: fetchProfile() up to the fetch. The closure keeps
\* the `user` of the render that created it.
fetchProfile ==
    /\ probePc # "init"
    /\ ~pvMounted
    /\ pvMounted' = TRUE
    /\ pvLoading' = TRUE
    /\ pvError' = NoText
    /\ Send(Request("fetchProfile", "/api/user/profile", "GET", NoBody, user))
    /\ lastOp' = Op("fetchProfile", {})
    /\ UNCHANGED <<sessionVars, ret, profile, editForm, navigated, apiVars, viewVars>>

\* The catch block of fetchProfile: the view state and the session it leaves.
\*   view    : <<profile, editForm, error>>
\*   logsOut : logout() and navigate('/login') were called
fetchProfileCatch(err, snapUser) ==
    LET errorMessage == IF err.message # NoText THEN err.message ELSE FailedToFetchProfile
        tail(msg, view) ==
            [view |-> view,
             logsOut |-> Includes(msg, "token") \/ Includes(msg, "Unauthorized")]
    IN  IF err.status = 404 \/ Includes(errorMessage, "404")
        THEN IF TruthyUser(snapUser)
             THEN tail(errorMessage, <<snapUser, FormOf(snapUser), ProfileUnavailableNote>>)
             ELSE tail(ProfileNotFoundMessage, <<profile, editForm, ProfileNotFoundMessage>>)
        ELSE IF err.status = 401
        THEN [view |-> <<profile, editForm, UnauthorizedMessage>>, logsOut |-> TRUE]
        ELSE tail(errorMessage, <<profile, editForm, errorMessage>>)

\* fetchProfile from the settling of the fetch on.
fetchProfileSettled(req, resp) ==
    /\ req.op = "fetchProfile"
    /\ Settle(req)
    /\ LET out == ApiResponse(resp) IN
       IF out.ok /\ out.data.shape # "null"
       THEN /\ profile' = ProfileValue(out.data)
            /\ editForm' = FormOf(ProfileValue(out.data))
            /\ updateUser(ProfileValue(out.data))
            /\ lastOp' = Done("fetchProfileSettled", {"updateUser"}, resp)
            /\ UNCHANGED <<token, isAuthenticated, pvError, navigated>>
       ELSE LET \* setProfile(null) ran before data.username threw
                err == IF out.ok THEN NullReadTypeError ELSE out.error
                seen == IF out.ok THEN Null ELSE profile
                c == fetchProfileCatch(err, req.snap) IN
            /\ profile' = IF c.view[1] = profile THEN seen ELSE c.view[1]
            /\ editForm' = c.view[2]
            /\ pvError' = c.view[3]
            /\ IF c.logsOut
               THEN /\ logout
                    /\ navigated' = "/login"
                    /\ lastOp' = Done("fetchProfileSettled", {"logout"}, resp)
               ELSE /\ UNCHANGED <<token, user, isAuthenticated, navigated>>
                    /\ lastOp' = Done("fetchProfileSettled", {}, resp)
    /\ pvLoading' = FALSE
    /\ UNCHANGED <<loading, probePc, ret, pvMounted, apiVars, viewVars>>

\* ----------------------------------------------------------------- postsAPI
TitleAndContentRequired == <<"Title", "and", "content", "are", "required">>

PostIdRequired == <<"Post", "id", "is", "required">>

NothingProvided == <<"Title,", "content,", "or", "image", "must", "be", "provided">>

\* Arguments a caller passes: "" stands for a missing / empty (falsy) value.
Titles == {"", "T"}
Contents == {"", "C"}
Images == {"", "img"}
PostIds == {0, 1}

Payload(present, title, content, image) ==
    [present |-> present, title |-> title, content |-> content, image |-> image]

\* payload || {}
OrEmpty(payload) == IF payload.present THEN payload ELSE Payload(TRUE, "", "", "")

Payloads ==
    {Payload(FALSE, "", "", "")} \cup
    { Payload(TRUE, t, c, i) : t \in Titles, c \in Contents, i \in Images }

\* The fields createPost appends to its FormData.
CreateFields(image) ==
    {"title", "content"} \cup (IF Truthy(image) THEN {"image"} ELSE {})

\* Mutant: JSON when no image is attached.
CreateBodyJsonWithoutImage(image) ==
    IF Truthy(image) THEN FormData(CreateFields(image)) ELSE JsonBody(CreateFields(image))

\* The body createPost hands to apiRequest.
CreateBody(image) == FormData(CreateFields(image))

\* The fields updatePost appends to its FormData.
UpdateFields(p) ==
    (IF Truthy(p.title) THEN {"title"} ELSE {}) \cup
    (IF Truthy(p.content) THEN {"content"} ELSE {}) \cup
    (IF Truthy(p.image) THEN {"image"} ELSE {})

\* The body updatePost hands to apiRequest.
UpdateBody(p) == FormData(UpdateFields(p))

\* postsAPI.createPost up to the fetch, or to its local throw.
createPost(title, content, image) ==
    /\ probePc # "init"
    /\ IF ~Truthy(title) \/ ~Truthy(content)
       THEN /\ ret' = Ret("createPost", FALSE, TitleAndContentRequired)
            /\ UNCHANGED netVars
       ELSE /\ Send(Request("createPost", "/api/posts", "POST", CreateBody(image), Undefined))
            /\ UNCHANGED ret
    /\ lastOp' = Op("createPost", {})
    /\ UNCHANGED <<sessionVars, profileVars, apiVars, viewVars>>

\* Mutant: updatePost only checks its id.
updatePostAnyPayload(id, payload) ==
    /\ probePc # "init"
    /\ LET p == OrEmpty(payload) IN
       IF id = 0
       THEN /\ ret' = Ret("updatePost", FALSE, PostIdRequired)
            /\ UNCHANGED netVars
       ELSE /\ Send(Request("updatePost", "/api/posts/:id", "PUT", UpdateBody(p), Undefined))
            /\ UNCHANGED ret
    /\ lastOp' = Op("updatePost", {})
    /\ UNCHANGED <<sessionVars, profileVars, apiVars, viewVars>>

\* postsAPI.updatePost up to the fetch, or to its local throw.
updatePost(id, payload) ==
    /\ probePc # "init"
    /\ LET p == OrEmpty(payload) IN
       IF id = 0
       THEN /\ ret' = Ret("updatePost", FALSE, PostIdRequired)
            /\ UNCHANGED netVars
       ELSE IF ~Truthy(p.title) /\ ~Truthy(p.content) /\ ~Truthy(p.image)
       THEN /\ ret' = Ret("updatePost", FALSE, NothingProvided)
            /\ UNCHANGED netVars
       ELSE /\ Send(Request("updatePost", "/api/posts/:id", "PUT", UpdateBody(p), Undefined))
            /\ UNCHANGED ret
    /\ lastOp' = Op("updatePost", {})
    /\ UNCHANGED <<sessionVars, profileVars, apiVars, viewVars>>

ProfilePictureRequired == <<"Profile", "picture", "is", "required">>

\* postsAPI.getPostById up to the fetch, or to its local throw.
getPostById(id) ==
    /\ probePc # "init"
    /\ IF id = 0
       THEN /\ ret' = Ret("getPostById", FALSE, PostIdRequired)
            /\ UNCHANGED netVars
       ELSE /\ Send(Request("getPostById", "/api/posts/:id", "GET", NoBody, Undefined))
            /\ UNCHANGED ret
    /\ lastOp' = Op("getPostById", {})
    /\ UNCHANGED <<sessionVars, profileVars, apiVars, viewVars>>

\* Mutant: deletePost does not check its id.
deletePostNoCheck(id) ==
    /\ probePc # "init"
    /\ Send(Request("deletePost", "/api/posts/:id", "DELETE", NoBody, Undefined))
    /\ UNCHANGED ret
    /\ lastOp' = Op("deletePost", {})
    /\ UNCHANGED <<sessionVars, profileVars, apiVars, viewVars>>

\* postsAPI.deletePost up to the fetch, or to its local throw.
deletePost(id) ==
    /\ probePc # "init"
    /\ IF id = 0
       THEN /\ ret' = Ret("deletePost", FALSE, PostIdRequired)
            /\ UNCHANGED netVars
       ELSE /\ Send(Request("deletePost", "/api/posts/:id", "DELETE", NoBody, Undefined))
            /\ UNCHANGED ret
    /\ lastOp' = Op("deletePost", {})
    /\ UNCHANGED <<sessionVars, profileVars, apiVars, viewVars>>

\* userAPI.uploadProfilePicture up to the fetch, or to its local throw.
uploadProfilePicture(profilePicture) ==
    /\ probePc # "init"
    /\ IF ~Truthy(profilePicture)
       THEN /\ ret' = Ret("uploadProfilePicture", FALSE, ProfilePictureRequired)
            /\ UNCHANGED netVars
       ELSE /\ Send(Request("uploadProfilePicture", "/api/user/profile-picture", "POST",
                            FormData({"profile_picture"}), Undefined))
            /\ UNCHANGED ret
    /\ lastOp' = Op("uploadProfilePicture", {})
    /\ UNCHANGED <<sessionVars, profileVars, apiVars, viewVars>>

\* The Domain API operations that validate their arguments.
ValidatingOps ==
    {"createPost", "updatePost", "getPostById", "deletePost", "uploadProfilePicture"}

\* A validating Domain API operation from the settling of the fetch on: the
\* outcome of apiRequest goes to the caller as it is.
postSettled(req, resp) ==
    /\ req.op \in ValidatingOps
    /\ Settle(req)
    /\ LET out == ApiResponse(resp) IN
       ret' = Ret(req.op, out.ok, out.error.message)
    /\ lastOp' = Done("postSettled", {}, resp)
    /\ UNCHANGED <<sessionVars, profileVars, apiVars, viewVars>>

\* --------------------------------------------------------------- Posts view
FailedToFetchPosts == <<"Failed", "to", "fetch", "posts">>

FailedToCreatePost == <<"Failed", "to", "create", "post">>

\* The state of the other view, which a handler of this one leaves alone.
profileViewVars == <<profileVars, listVars, editVars, pictureVars, postEditVars>>

postsViewVars == <<feedVars, createVars>>

\* useState({ title: '', content: '', image: null })
BlankPost == [title |-> "", content |-> "", image |-> NoFile]

\* What the user types in a title / content input. " " is blank text.
FormTitles == {"", " ", "T"}
FormContents == {"", "C"}

\* String.prototype.trim
Trim(text) == IF text = " " THEN "" ELSE text

\* postsAPI.getPosts(page, limit) as fetchPosts calls it.
FetchPostsRequest(page) == Request("fetchPosts", PostsUrl(page), "GET", NoBody, Undefined)

\* A settling call hands further requests to fetch.
SettleAndIssue(req, reqs) ==
    /\ BagIn(req, inflight)
    /\ inflight' = (inflight (-) SetToBag({req})) (+) reqs
    /\ UNCHANGED issued

\* Posts is on screen.
PostsShown == feedMounted /\ navigated = ""

\* Posts renders its body (not the loading screen of an empty list).
PostsBodyShown == PostsShown /\ ~(feedLoading /\ posts = EmptyList)

\* The create form is rendered.
CreateFormShown == PostsBodyShown /\ showCreateForm

\* Posts' effect on [currentPage] at mount: fetchPosts(currentPage) up to the fetch.
PostsMount ==
    /\ probePc # "init"
    /\ ~feedMounted /\ ~pvMounted
    /\ feedMounted' = TRUE
    /\ feedLoading' = TRUE
    /\ feedError' = NoText
    /\ inflight' = inflight (+) SetToBag({FetchPostsRequest(currentPage)})
    /\ lastOp' = Op("PostsMount", {})
    /\ UNCHANGED <<sessionVars, issued, ret, profileViewVars, apiVars, posts, pagination,
                   currentPage, createVars, readers>>

\* The catch block of fetchPosts: the error it shows and whether it calls
\* logout() and navigate('/login').
fetchPostsCatch(err) ==
    [error |-> IF err.message # NoText THEN err.message ELSE FailedToFetchPosts,
     logsOut |-> Includes(err.message, "token") \/ Includes(err.message, "Unauthorized")]

\* fetchPosts from the settling of the fetch on.
fetchPostsSettled(req, resp) ==
    /\ req.op = "fetchPosts"
    /\ Settle(req)
    /\ LET out == ApiResponse(resp) IN
       IF out.ok /\ out.data.shape # "null"
       THEN /\ posts' = out.data.posts
            /\ pagination' = out.data.pagination
            /\ lastOp' = Done("fetchPostsSettled", {}, resp)
            /\ UNCHANGED <<feedError, token, user, isAuthenticated, navigated>>
       ELSE LET c == fetchPostsCatch(IF out.ok THEN NullReadTypeError ELSE out.error) IN
            /\ feedError' = c.error
            /\ UNCHANGED <<posts, pagination>>
            /\ IF c.logsOut
               THEN /\ logout
                    /\ navigated' = "/login"
                    /\ lastOp' = Done("fetchPostsSettled", {"logout"}, resp)
               ELSE /\ UNCHANGED <<token, user, isAuthenticated, navigated>>
                    /\ lastOp' = Done("fetchPostsSettled", {}, resp)
    /\ feedLoading' = FALSE
    /\ UNCHANGED <<loading, probePc, ret, pvMounted, profile, editForm, pvError, pvLoading,
                   listVars, editVars, pictureVars, postEditVars, apiVars, feedMounted,
                   currentPage, createVars, readers>>

\* Mutant: handlePageChange only checks the lower end of the range.
PostsHandlePageChangeNoUpper(newPage) ==
    /\ PostsBodyShown
    /\ posts # EmptyList
    /\ pagination.totalPages > 1
    /\ ~feedLoading
    /\ \/ newPage = currentPage - 1 /\ pagination.hasPreviousPage
       \/ newPage = currentPage + 1 /\ pagination.hasNextPage
    /\ IF newPage >= 1
       THEN /\ currentPage' = newPage
            /\ feedLoading' = TRUE
            /\ feedError' = NoText
            /\ Send(FetchPostsRequest(newPage))
       ELSE UNCHANGED <<currentPage, feedLoading, feedError, netVars>>
    /\ lastOp' = Op("PostsHandlePageChange", {})
    /\ UNCHANGED <<sessionVars, ret, profileViewVars, apiVars, feedMounted, posts, pagination,
                   createVars, readers>>

\* Posts.handlePageChange(newPage), called by the Previous / Next buttons, and
\* the effect on [currentPage] that follows a change of page.
PostsHandlePageChange(newPage) ==
    /\ PostsBodyShown
    /\ posts # EmptyList
    /\ pagination.totalPages > 1
    /\ ~feedLoading
    /\ \/ newPage = currentPage - 1 /\ pagination.hasPreviousPage
       \/ newPage = currentPage + 1 /\ pagination.hasNextPage
    /\ IF newPage >= 1 /\ newPage <= pagination.totalPages
       THEN /\ currentPage' = newPage
            /\ feedLoading' = TRUE
            /\ feedError' = NoText
            /\ Send(FetchPostsRequest(newPage))
       ELSE UNCHANGED <<currentPage, feedLoading, feedError, netVars>>
    /\ lastOp' = Op("PostsHandlePageChange", {})
    /\ UNCHANGED <<sessionVars, ret, profileViewVars, apiVars, feedMounted, posts, pagination,
                   createVars, readers>>

\* Posts.handleToggleForm (New Post / Close / Cancel).
handleToggleForm ==
    /\ PostsShown
    /\ showCreateForm' = ~showCreateForm
    /\ formError' = NoText
    /\ newPost' = BlankPost
    /\ imagePreview' = NoPreview
    /\ lastOp' = Op("handleToggleForm", {})
    /\ UNCHANGED <<sessionVars, netVars, ret, profileViewVars, apiVars, feedVars, creating,
                   readers>>

\* onChange of the title / content input: setNewPost({...newPost, [field]: value}).
NewPostChange(field, value) ==
    /\ CreateFormShown
    /\ ~creating
    /\ newPost[field] # value
    /\ newPost' = [newPost EXCEPT ![field] = value]
    /\ lastOp' = Op("NewPostChange", {})
    /\ UNCHANGED <<sessionVars, netVars, ret, profileViewVars, apiVars, feedVars,
                   showCreateForm, imagePreview, creating, formError, readers>>

\* Posts.handleImageChange: the file input of the create form changed.
handleImageChange(file) ==
    /\ CreateFormShown
    /\ ~creating
    /\ IF file = NoFile
       THEN /\ newPost' = [newPost EXCEPT !.image = NoFile]
            /\ imagePreview' = NoPreview
            /\ UNCHANGED <<formError, readers>>
       ELSE IF FileError(file) # NoText
       THEN /\ formError' = FileError(file)
            /\ UNCHANGED <<newPost, imagePreview, readers>>
       ELSE /\ formError' = NoText
            /\ newPost' = [newPost EXCEPT !.image = file]
            /\ readers' = readers \cup {<<"create", file>>}
            /\ UNCHANGED imagePreview
    /\ lastOp' = Op("handleImageChange", {})
    /\ UNCHANGED <<sessionVars, netVars, ret, profileViewVars, apiVars, feedVars,
                   showCreateForm, creating>>

\* The Remove Image button of the create form.
RemoveImage ==
    /\ CreateFormShown
    /\ imagePreview # NoPreview
    /\ ~creating
    /\ newPost' = [newPost EXCEPT !.image = NoFile]
    /\ imagePreview' = NoPreview
    /\ lastOp' = Op("RemoveImage", {})
    /\ UNCHANGED <<sessionVars, netVars, ret, profileViewVars, apiVars, feedVars,
                   showCreateForm, creating, formError, readers>>

\* Posts.handleCreatePost up to the fetch, or to its local rejection.
handleCreatePost ==
    /\ CreateFormShown
    /\ ~creating
    /\ LET title == Trim(newPost.title)
           content == Trim(newPost.content) IN
       IF ~Truthy(title) \/ ~Truthy(content)
       THEN /\ formError' = TitleAndContentRequired
            /\ UNCHANGED <<creating, netVars>>
       ELSE /\ creating' = TRUE
            /\ formError' = NoText
            /\ Send(Request("handleCreatePost", "/api/posts", "POST",
                            CreateBody(newPost.image), Undefined))
    /\ lastOp' = Op("handleCreatePost", {})
    /\ UNCHANGED <<sessionVars, ret, profileViewVars, apiVars, feedVars, showCreateForm,
                   newPost, imagePreview, readers>>

\* The catch block of handleCreatePost.
handleCreatePostCatch(err) ==
    LET message == IF err.message # NoText THEN err.message ELSE FailedToCreatePost IN
    [error |-> message,
     logsOut |-> Includes(message, "token") \/ Includes(message, "Unauthorized")]

\* handleCreatePost from the settling of the fetch on. On success it sets the
\* page to 1 and calls fetchPosts(1); the effect on [currentPage] calls it
\* once more when the page was not 1.
handleCreatePostSettled(req, resp) ==
    /\ req.op = "handleCreatePost"
    /\ LET out == ApiResponse(resp) IN
       IF out.ok
       THEN /\ newPost' = BlankPost
            /\ imagePreview' = NoPreview
            /\ showCreateForm' = FALSE
            /\ currentPage' = 1
            /\ feedLoading' = TRUE
            /\ feedError' = NoText
            /\ SettleAndIssue(req,
                  SetToBag({FetchPostsRequest(1)}) (+)
                  (IF currentPage # 1 THEN SetToBag({FetchPostsRequest(1)}) ELSE EmptyBag))
            /\ lastOp' = Done("handleCreatePostSettled", {}, resp)
            /\ UNCHANGED <<formError, token, user, isAuthenticated, navigated>>
       ELSE LET c == handleCreatePostCatch(out.error) IN
            /\ formError' = c.error
            /\ Settle(req)
            /\ UNCHANGED <<newPost, imagePreview, showCreateForm, currentPage, feedLoading,
                           feedError>>
            /\ IF c.logsOut
               THEN /\ logout
                    /\ navigated' = "/login"
                    /\ lastOp' = Done("handleCreatePostSettled", {"logout"}, resp)
               ELSE /\ UNCHANGED <<token, user, isAuthenticated, navigated>>
                    /\ lastOp' = Done("handleCreatePostSettled", {}, resp)
    /\ creating' = FALSE
    /\ UNCHANGED <<loading, probePc, ret, pvMounted, profile, editForm, pvError, pvLoading,
                   listVars, editVars, pictureVars, postEditVars, apiVars, feedMounted,
                   posts, pagination, readers>>

\* reader.onloadend of a read one of the three image handlers started.
onloadend(form, file) ==
    /\ <<form, file>> \in readers
    /\ readers' = readers \ {<<form, file>>}
    /\ CASE form = "create" ->
              /\ imagePreview' = DataUrl(file)
              /\ UNCHANGED <<editImagePreview, profilePicturePreview>>
         [] form = "edit" ->
              /\ editImagePreview' = DataUrl(file)
              /\ UNCHANGED <<imagePreview, profilePicturePreview>>
         [] form = "picture" ->
              /\ profilePicturePreview' = DataUrl(file)
              /\ UNCHANGED <<imagePreview, editImagePreview>>
    /\ lastOp' = Op("onloadend", {})
    /\ UNCHANGED <<sessionVars, netVars, ret, profileVars, apiVars, feedVars, showCreateForm,
                   newPost, creating, formError, listVars, editVars, profilePictureFile,
                   pictureError, editingPostId, editPost, updating, postEditError>>

\* ------------------------------------------------- Profile view: lists, forms
NoChangesToSave == <<"No", "changes", "to", "save">>

FailedToUpdateProfile == <<"Failed", "to", "update", "profile">>

FailedToUpdatePost == <<"Failed", "to", "update", "post">>

OnlyOwnPosts == <<"You", "can", "only", "edit", "your", "own", "posts">>

\* TypeError thrown by reading a property of undefined.
UndefinedReadTypeError ==
    MkError("TypeError", NoStatus, <<"Cannot", "read", "properties", "of", "undefined">>, NoData)

\* What the user types in the inputs of the profile form and of the post form.
FormUsernames == Users \cup {""}
FormEmails == {"alice@x", "bob@x"}
FormBios == {"", "bio"}
EditTitles == {"", "T", "T2"}
EditContents == {"C", "C2"}

\* Profile renders its sections (not the loading screen, not the error alone).
ProfileShown ==
    /\ pvMounted
    /\ navigated = ""
    /\ ~pvLoading
    /\ ~(pvError # NoText /\ ~TruthyUser(profile))

\* The list of the user's posts is rendered.
UserPostsShown == ProfileShown /\ ~loadingPosts /\ userPosts # EmptyList

\* The edit form of the post being edited is rendered.
EditPostFormShown == UserPostsShown /\ editingPostId \in PostsOf(userPosts)

\* userAPI.getUserPosts(page, 10) as fetchUserPosts calls it.
FetchUserPostsRequest(page) ==
    Request("fetchUserPosts", UserPostsUrl(page), "GET", NoBody, Undefined)

\* Profile's mount effect: fetchProfile(), fetchStats(), fetchUserPosts(1), each
\* up to its fetch. fetchProfile keeps the `user`, fetchStats the `profile` of
\* the render that created them.
ProfileMount ==
    /\ probePc # "init"
    /\ ~pvMounted /\ ~feedMounted
    /\ pvMounted' = TRUE
    /\ pvLoading' = TRUE
    /\ pvError' = NoText
    /\ loadingPosts' = TRUE
    /\ inflight' = inflight (+)
          SetToBag({Request("fetchProfile", "/api/user/profile", "GET", NoBody, user),
                    Request("fetchStats", "/api/user/stats", "GET", NoBody, profile),
                    FetchUserPostsRequest(1)})
    /\ lastOp' = Op("ProfileMount", {})
    /\ UNCHANGED <<sessionVars, issued, ret, profile, editForm, navigated, apiVars,
                   postsViewVars, stats, userPosts, postsPagination, pvPage, editVars,
                   pictureVars, postEditVars, readers>>

\* fetchStats from the settling of the fetch on.
fetchStatsSettled(req, resp) ==
    /\ req.op = "fetchStats"
    /\ Settle(req)
    /\ LET out == ApiResponse(resp) IN
       IF out.ok THEN stats' = StatsOf(out.data)
       ELSE IF out.error.status = 404 THEN stats' = DefaultStats(req.snap)
       ELSE UNCHANGED stats
    /\ lastOp' = Done("fetchStatsSettled", {}, resp)
    /\ UNCHANGED <<sessionVars, ret, profileVars, apiVars, postsViewVars, userPosts,
                   postsPagination, pvPage, loadingPosts, editVars, pictureVars,
                   postEditVars, readers>>

\* fetchUserPosts from the settling of the fetch on.
fetchUserPostsSettled(req, resp) ==
    /\ req.op = "fetchUserPosts"
    /\ Settle(req)
    /\ LET out == ApiResponse(resp) IN
       IF out.ok /\ out.data.shape # "null"
       THEN /\ userPosts' = out.data.posts
            /\ postsPagination' = out.data.pagination
       ELSE LET err == IF out.ok THEN NullReadTypeError ELSE out.error IN
            IF err.status = 404
            THEN /\ userPosts' = EmptyList
                 /\ postsPagination' = NoPagination
            ELSE UNCHANGED <<userPosts, postsPagination>>
    /\ loadingPosts' = FALSE
    /\ lastOp' = Done("fetchUserPostsSettled", {}, resp)
    /\ UNCHANGED <<sessionVars, ret, profileVars, apiVars, postsViewVars, stats, pvPage,
                   editVars, pictureVars, postEditVars, readers>>

\* Profile.handlePageChange(newPage), called by the Previous / Next buttons.
ProfileHandlePageChange(newPage) ==
    /\ UserPostsShown
    /\ postsPagination.totalPages > 1
    /\ \/ newPage = pvPage - 1 /\ postsPagination.hasPreviousPage
       \/ newPage = pvPage + 1 /\ postsPagination.hasNextPage
    /\ IF newPage >= 1 /\ newPage <= postsPagination.totalPages
       THEN /\ pvPage' = newPage
            /\ loadingPosts' = TRUE
            /\ Send(FetchUserPostsRequest(newPage))
       ELSE UNCHANGED <<pvPage, loadingPosts, netVars>>
    /\ lastOp' = Op("ProfileHandlePageChange", {})
    /\ UNCHANGED <<sessionVars, ret, profileVars, apiVars, postsViewVars, stats, userPosts,
                   postsPagination, editVars, pictureVars, postEditVars, readers>>

\* Profile.handleEditToggle (Edit Profile / Cancel).
handleEditToggle ==
    /\ ProfileShown
    /\ ~(isEditing /\ saving)
    /\ IF isEditing
       THEN /\ editForm' = FormOf(profile)
            /\ editError' = NoText
       ELSE UNCHANGED <<editForm, editError>>
    /\ isEditing' = ~isEditing
    /\ lastOp' = Op("handleEditToggle", {})
    /\ UNCHANGED <<sessionVars, netVars, ret, pvMounted, profile, pvError, pvLoading,
                   navigated, apiVars, postsViewVars, listVars, saving, pictureVars,
                   postEditVars, readers>>

\* onChange of an input of the profile form: setEditForm({...editForm, [field]: value}).
EditFormChange(field, value) ==
    /\ ProfileShown
    /\ isEditing
    /\ ~saving
    /\ editForm[field] # value
    /\ editForm' = [editForm EXCEPT ![field] = value]
    /\ lastOp' = Op("EditFormChange", {})
    /\ UNCHANGED <<sessionVars, netVars, ret, pvMounted, profile, pvError, pvLoading,
                   navigated, apiVars, postsViewVars, listVars, editVars, pictureVars,
                   postEditVars, readers>>

\* ProfileUpdates comparing the bio with profile.bio itself.
ProfileUpdatesRawBio(form, p) ==
    (IF form.username # UsernameOf(p) THEN {"username"} ELSE {}) \cup
    (IF form.email # EmailOf(p) THEN {"email"} ELSE {}) \cup
    (IF form.bio # BioOf(p) THEN {"bio"} ELSE {})

\* The `updates` object of handleProfileUpdate: the keys it gets.
ProfileUpdates(form, p) ==
    (IF form.username # UsernameOf(p) THEN {"username"} ELSE {}) \cup
    (IF form.email # EmailOf(p) THEN {"email"} ELSE {}) \cup
    (IF form.bio # OrBlank(BioOf(p)) THEN {"bio"} ELSE {})

\* Profile.handleProfileUpdate up to the fetch, or to its local rejection. The
\* form submits only with its required inputs (username, email) filled.
handleProfileUpdate ==
    /\ ProfileShown
    /\ isEditing
    /\ ~saving
    /\ editForm.username # "" /\ editForm.email # ""
    /\ IF ~TruthyUser(profile)
       THEN /\ editError' = UndefinedReadTypeError.message
            /\ saving' = FALSE
            /\ UNCHANGED netVars
       ELSE IF ProfileUpdates(editForm, profile) = {}
       THEN /\ editError' = NoChangesToSave
            /\ saving' = FALSE
            /\ UNCHANGED netVars
       ELSE /\ editError' = NoText
            /\ saving' = TRUE
            /\ Send(Request("handleProfileUpdate", "/api/user/profile", "PUT",
                            JsonBody(ProfileUpdates(editForm, profile)), Undefined))
    /\ lastOp' = Op("handleProfileUpdate", {})
    /\ UNCHANGED <<sessionVars, ret, profileVars, apiVars, postsViewVars, listVars,
                   isEditing, pictureVars, postEditVars, readers>>

\* handleProfileUpdate from the settling of updateProfile on, up to the fetch
\* of the refreshProfile() it awaits.
handleProfileUpdateSettled(req, resp) ==
    /\ req.op = "handleProfileUpdate"
    /\ LET out == ApiResponse(resp) IN
       IF out.ok /\ out.data.shape # "null"
       THEN /\ profile' = out.data.user
            /\ updateUser(out.data.user)
            /\ isEditing' = FALSE
            /\ SettleAndIssue(req,
                  SetToBag({Request("awaitRefreshProfile", "/api/user/profile", "GET",
                                    NoBody, Undefined)}))
            /\ lastOp' = Done("handleProfileUpdateSettled", {"updateUser", "refreshProfile"}, resp)
            /\ UNCHANGED <<editError, saving>>
       ELSE LET err == IF out.ok THEN NullReadTypeError ELSE out.error IN
            /\ editError' = IF err.message # NoText THEN err.message ELSE FailedToUpdateProfile
            /\ saving' = FALSE
            /\ Settle(req)
            /\ lastOp' = Done("handleProfileUpdateSettled", {}, resp)
            /\ UNCHANGED <<profile, user, isEditing>>
    /\ UNCHANGED <<token, isAuthenticated, loading, probePc, ret, pvMounted, editForm,
                   pvError, pvLoading, navigated, apiVars, postsViewVars, listVars,
                   pictureVars, postEditVars, readers>>

\* handleProfileUpdate from the settling of the awaited refreshProfile() on.
handleProfileUpdateRefreshed(req, resp) ==
    /\ req.op = "awaitRefreshProfile"
    /\ Settle(req)
    /\ LET out == ApiResponse(resp) IN
       IF out.ok
       THEN /\ user' = ProfileValue(out.data)
            /\ ret' = Ret("refreshProfile", TRUE, NoText)
       ELSE /\ user' = RefreshCatchUser(user)
            /\ ret' = Ret("refreshProfile", FALSE, out.error.message)
    /\ saving' = FALSE
    /\ lastOp' = Done("handleProfileUpdateRefreshed", {"refreshProfile"}, resp)
    /\ UNCHANGED <<token, isAuthenticated, loading, probePc, profileVars, apiVars,
                   postsViewVars, listVars, isEditing, editError, pictureVars,
                   postEditVars, readers>>

\* Profile.handleStartEdit(post), called by the Edit button of a listed post.
handleStartEdit(id) ==
    /\ UserPostsShown
    /\ id \in PostsOf(userPosts)
    /\ editingPostId # id
    /\ editingPostId' = id
    /\ editPost' = [title |-> TitleOf(id), content |-> ContentOf(id), image |-> NoFile]
    /\ editImagePreview' = NoPreview
    /\ postEditError' = NoText
    /\ lastOp' = Op("handleStartEdit", {})
    /\ UNCHANGED <<sessionVars, netVars, ret, profileVars, apiVars, postsViewVars, listVars,
                   editVars, pictureVars, updating, readers>>

\* Profile.handleCancelEdit.
handleCancelEdit ==
    /\ EditPostFormShown
    /\ ~updating
    /\ editingPostId' = 0
    /\ editPost' = BlankPost
    /\ editImagePreview' = NoPreview
    /\ postEditError' = NoText
    /\ lastOp' = Op("handleCancelEdit", {})
    /\ UNCHANGED <<sessionVars, netVars, ret, profileVars, apiVars, postsViewVars, listVars,
                   editVars, pictureVars, updating, readers>>

\* onChange of the title / content input of the post form.
EditPostChange(field, value) ==
    /\ EditPostFormShown
    /\ ~updating
    /\ editPost[field] # value
    /\ editPost' = [editPost EXCEPT ![field] = value]
    /\ lastOp' = Op("EditPostChange", {})
    /\ UNCHANGED <<sessionVars, netVars, ret, profileVars, apiVars, postsViewVars, listVars,
                   editVars, pictureVars, editingPostId, editImagePreview, updating,
                   postEditError, readers>>

\* Profile.handleEditImageChange: the file input of the post form changed.
handleEditImageChange(file) ==
    /\ EditPostFormShown
    /\ ~updating
    /\ IF file = NoFile
       THEN /\ editPost' = [editPost EXCEPT !.image = NoFile]
            /\ editImagePreview' = NoPreview
            /\ UNCHANGED <<postEditError, readers>>
       ELSE IF FileError(file) # NoText
       THEN /\ postEditError' = FileError(file)
            /\ UNCHANGED <<editPost, editImagePreview, readers>>
       ELSE /\ postEditError' = NoText
            /\ editPost' = [editPost EXCEPT !.image = file]
            /\ readers' = readers \cup {<<"edit", file>>}
            /\ UNCHANGED editImagePreview
    /\ lastOp' = Op("handleEditImageChange", {})
    /\ UNCHANGED <<sessionVars, netVars, ret, profileVars, apiVars, postsViewVars, listVars,
                   editVars, pictureVars, editingPostId, updating>>

\* The Remove button next to the preview of the post form.
RemoveEditImage ==
    /\ EditPostFormShown
    /\ editImagePreview # NoPreview
    /\ ~updating
    /\ editPost' = [editPost EXCEPT !.image = NoFile]
    /\ editImagePreview' = NoPreview
    /\ lastOp' = Op("RemoveEditImage", {})
    /\ UNCHANGED <<sessionVars, netVars, ret, profileVars, apiVars, postsViewVars, listVars,
                   editVars, pictureVars, editingPostId, updating, postEditError, readers>>

\* PostUpdates putting title and content in whether they changed or not.
PostUpdatesWholeDraft(draft, id) ==
    Payload(TRUE, draft.title, draft.content, IF Truthy(draft.image) THEN draft.image ELSE "")

\* The `updates` object of handleUpdatePost, as a payload of updatePost.
PostUpdates(draft, id) ==
    Payload(TRUE,
            IF draft.title # TitleOf(id) THEN draft.title ELSE "",
            IF draft.content # ContentOf(id) THEN draft.content ELSE "",
            IF Truthy(draft.image) THEN draft.image ELSE "")

\* Profile.handleUpdatePost(postId) up to the fetch, or to its local rejection.
\* The form submits only with its required inputs (title, content) filled; the
\* closure keeps the currentPage of the render that created it.
handleUpdatePost(postId) ==
    /\ EditPostFormShown
    /\ postId = editingPostId
    /\ ~updating
    /\ editPost.title # "" /\ editPost.content # ""
    /\ LET updates == PostUpdates(editPost, postId) IN
       IF UpdateFields(updates) = {}
       THEN /\ postEditError' = NoChangesToSave
            /\ updating' = FALSE
            /\ UNCHANGED netVars
       ELSE /\ postEditError' = NoText
            /\ updating' = TRUE
            /\ Send(Request("handleUpdatePost", PostUrl(postId), "PUT",
                            UpdateBody(updates), UserPostsUrl(pvPage)))
    /\ lastOp' = Op("handleUpdatePost", {})
    /\ UNCHANGED <<sessionVars, ret, profileVars, apiVars, postsViewVars, listVars, editVars,
                   pictureVars, editingPostId, editPost, editImagePreview, readers>>

\* The catch block of handleUpdatePost.
handleUpdatePostCatch(err) ==
    LET message == IF err.message # NoText THEN err.message ELSE FailedToUpdatePost
        flagged == \/ Includes(message, "token")
                   \/ Includes(message, "Unauthorized")
                   \/ Includes(message, "403") IN
    [error |-> IF flagged /\ Includes(message, "403") THEN OnlyOwnPosts ELSE message,
     logsOut |-> flagged /\ ~Includes(message, "403")]

\* handleUpdatePost from the settling of the fetch on; on success it calls
\* fetchUserPosts(currentPage).
handleUpdatePostSettled(req, resp) ==
    /\ req.op = "handleUpdatePost"
    /\ LET out == ApiResponse(resp) IN
       IF out.ok
       THEN /\ editingPostId' = 0
            /\ editPost' = BlankPost
            /\ editImagePreview' = NoPreview
            /\ loadingPosts' = TRUE
            /\ SettleAndIssue(req, SetToBag({FetchUserPostsRequest(PageOfUrl(req.snap))}))
            /\ lastOp' = Done("handleUpdatePostSettled", {}, resp)
            /\ UNCHANGED <<postEditError, token, user, isAuthenticated, navigated>>
       ELSE LET c == handleUpdatePostCatch(out.error) IN
            /\ postEditError' = c.error
            /\ Settle(req)
            /\ UNCHANGED <<editingPostId, editPost, editImagePreview, loadingPosts>>
            /\ IF c.logsOut
               THEN /\ logout
                    /\ navigated' = "/login"
                    /\ lastOp' = Done("handleUpdatePostSettled", {"logout"}, resp)
               ELSE /\ UNCHANGED <<token, user, isAuthenticated, navigated>>
                    /\ lastOp' = Done("handleUpdatePostSettled", {}, resp)
    /\ updating' = FALSE
    /\ UNCHANGED <<loading, probePc, ret, pvMounted, profile, editForm, pvError, pvLoading,
                   apiVars, postsViewVars, stats, userPosts, postsPagination, pvPage,
                   editVars, pictureVars, readers>>

\* Profile.handleProfilePictureChange: the file input of the picture changed.
handleProfilePictureChange(file) ==
    /\ ProfileShown
    /\ IF file = NoFile
       THEN /\ profilePictureFile' = NoFile
            /\ profilePicturePreview' = NoPreview
            /\ UNCHANGED <<pictureError, readers>>
       ELSE IF FileError(file) # NoText
       THEN /\ pictureError' = FileError(file)
            /\ UNCHANGED <<profilePictureFile, profilePicturePreview, readers>>
       ELSE /\ pictureError' = NoText
            /\ profilePictureFile' = file
            /\ readers' = readers \cup {<<"picture", file>>}
            /\ UNCHANGED profilePicturePreview
    /\ lastOp' = Op("handleProfilePictureChange", {})
    /\ UNCHANGED <<sessionVars, netVars, ret, profileVars, apiVars, postsViewVars, listVars,
                   editVars, postEditVars>>

\* The Cancel button next to the preview of the profile picture.
CancelPicture ==
    /\ ProfileShown
    /\ profilePicturePreview # NoPreview
    /\ profilePictureFile' = NoFile
    /\ profilePicturePreview' = NoPreview
    /\ lastOp' = Op("CancelPicture", {})
    /\ UNCHANGED <<sessionVars, netVars, ret, profileVars, apiVars, postsViewVars, listVars,
                   editVars, pictureError, postEditVars, readers>>

\* ------------------------------------------------------------ specification
\* fetch settles a pending request with any response, in any order.
ProbeSettles ==
    \E req \in BagToSet(inflight), resp \in Responses : ProbeSettled(req, resp)

LoginSettles ==
    \E req \in BagToSet(inflight), resp \in Responses : LoginSettled(req, resp)

RefreshSettles ==
    \E req \in BagToSet(inflight), resp \in Responses : RefreshSettled(req, resp)

fetchProfileSettles ==
    \E req \in BagToSet(inflight), resp \in Responses : fetchProfileSettled(req, resp)

postSettles ==
    \E req \in BagToSet(inflight), resp \in Responses : postSettled(req, resp)

Login == \E op \in {"login", "signup"} : LoginCall(op)

CreatePost == \E t \in Titles, c \in Contents, i \in Images : createPost(t, c, i)

UpdatePost == \E id \in PostIds, p \in Payloads : updatePost(id, p)

GetPostById == \E id \in PostIds : getPostById(id)

DeletePost == \E id \in PostIds : deletePost(id)

UploadProfilePicture == \E f \in Images : uploadProfilePicture(f)

\* The Session Context, the Token Store and the Profile view's profile fetch.
Next ==
    \/ StartupProbe
    \/ ProbeSettles
    \/ Login
    \/ LoginSettles
    \/ Logout
    \/ RefreshCall
    \/ RefreshSettles
    \/ fetchProfile
    \/ fetchProfileSettles

Spec == Init /\ [][Next]_vars

\* The posts API under any stored token: its calls, logout, and the responses.
NextPosts ==
    \/ StartupProbe
    \/ ProbeSettles
    \/ Logout
    \/ CreatePost
    \/ UpdatePost
    \/ postSettles

SpecPosts == Init /\ [][NextPosts]_vars

\* A session the startup probe found authenticated, before any view is mounted.
InitSession ==
    /\ token = "t1"
    /\ user = "alice"
    /\ isAuthenticated = TRUE
    /\ loading = FALSE
    /\ probePc = "done"
    /\ InitViews
    /\ fetched = FetchRejected
    /\ settled = PendingOutcome

\* The Domain API operations that validate their arguments, and the responses.
NextDomain ==
    \/ CreatePost
    \/ UpdatePost
    \/ GetPostById
    \/ DeletePost
    \/ UploadProfilePicture
    \/ postSettles

SpecDomain == InitSession /\ [][NextDomain]_vars

\* Responses to calls whose callers read `user` of the body.
UserResponses == { r \in Responses : r.body.token = "" }

\* newPage as the Previous / Next buttons compute it.
PageArgs == 0 .. 3

fetchPostsSettles ==
    \E req \in BagToSet(inflight) :
        /\ req.op = "fetchPosts"
        /\ \E resp \in ListResponses(PageOfUrl(req.endpoint)) : fetchPostsSettled(req, resp)

handleCreatePostSettles ==
    \E req \in BagToSet(inflight), resp \in PlainResponses : handleCreatePostSettled(req, resp)

PostsPageChange == \E newPage \in PageArgs : PostsHandlePageChange(newPage)

TypeNewPost ==
    \/ \E t \in FormTitles : NewPostChange("title", t)
    \/ \E c \in FormContents : NewPostChange("content", c)

SelectImage == \E f \in Files \cup {NoFile} : handleImageChange(f)

ReaderEnds == \E r \in readers : onloadend(r[1], r[2])

fetchStatsSettles ==
    \E req \in BagToSet(inflight), resp \in PlainResponses : fetchStatsSettled(req, resp)

fetchUserPostsSettles ==
    \E req \in BagToSet(inflight) :
        /\ req.op = "fetchUserPosts"
        /\ \E resp \in ListResponses(PageOfUrl(req.endpoint)) : fetchUserPostsSettled(req, resp)

ProfilePageChange == \E newPage \in PageArgs : ProfileHandlePageChange(newPage)

TypeEditForm ==
    \/ \E u \in FormUsernames : EditFormChange("username", u)
    \/ \E e \in FormEmails : EditFormChange("email", e)
    \/ \E b \in FormBios : EditFormChange("bio", b)

handleProfileUpdateSettles ==
    \E req \in BagToSet(inflight), resp \in UserResponses : handleProfileUpdateSettled(req, resp)

handleProfileUpdateRefreshes ==
    \E req \in BagToSet(inflight), resp \in UserResponses : handleProfileUpdateRefreshed(req, resp)

StartEdit == \E id \in PostsOf(userPosts) : handleStartEdit(id)

TypeEditPost ==
    \/ \E t \in EditTitles : EditPostChange("title", t)
    \/ \E c \in EditContents : EditPostChange("content", c)

SelectEditImage == \E f \in Files \cup {NoFile} : handleEditImageChange(f)

SubmitEditPost == handleUpdatePost(editingPostId)

handleUpdatePostSettles ==
    \E req \in BagToSet(inflight), resp \in PlainResponses : handleUpdatePostSettled(req, resp)

SelectPicture == \E f \in Files \cup {NoFile} : handleProfilePictureChange(f)

\* The Posts view: its list, its pages and its create form.
NextFeed ==
    \/ PostsMount
    \/ fetchPostsSettles
    \/ PostsPageChange
    \/ handleToggleForm
    \/ TypeNewPost
    \/ handleCreatePost
    \/ handleCreatePostSettles

SpecFeed == InitSession /\ [][NextFeed]_vars

\* The mount effects of the two views and the pages of their lists.
NextLists ==
    \/ PostsMount
    \/ fetchPostsSettles
    \/ PostsPageChange
    \/ ProfileMount
    \/ fetchProfileSettles
    \/ fetchStatsSettles
    \/ fetchUserPostsSettles
    \/ ProfilePageChange

SpecLists == InitSession /\ [][NextLists]_vars

\* An authenticated session, as InitSession chooses it.
InitAuthenticated ==
    /\ token = "t1"
    /\ isAuthenticated = TRUE
    /\ loading = FALSE
    /\ probePc = "done"
    /\ fetched = FetchRejected
    /\ settled = PendingOutcome

\* Posts after its mount effect and a list response: page 1 of 2 is shown.
InitPostsLoaded ==
    /\ InitAuthenticated
    /\ user = "alice"
    /\ InitNet
    /\ feedMounted = TRUE
    /\ posts = 1
    /\ pagination = Pagination(1, 2)
    /\ currentPage = 1
    /\ feedLoading = FALSE
    /\ feedError = NoText
    /\ InitCreateForm
    /\ InitProfileData
    /\ InitProfileForms

\* Profile after its mount effect and the responses to its three requests:
\* the profile of the user, the stats and page 1 of 2 of the user's posts.
InitProfileLoaded ==
    /\ InitAuthenticated
    /\ user \in Users
    /\ InitNet
    /\ InitPostsList
    /\ InitCreateForm
    /\ pvMounted = TRUE
    /\ profile = user
    /\ editForm = FormOf(user)
    /\ pvError = NoText
    /\ pvLoading = FALSE
    /\ stats = ServerStats
    /\ userPosts = 1
    /\ postsPagination = Pagination(1, 2)
    /\ pvPage = 1
    /\ loadingPosts = FALSE
    /\ InitProfileForms

\* The user works on the post form / on the profile form only.
ProfileFormUntouched == ~isEditing /\ ~saving /\ ret.op = "none"

PostFormUntouched ==
    /\ editingPostId = 0 /\ ~updating /\ postEditError = NoText
    /\ readers = {} /\ editImagePreview = NoPreview
    /\ ~loadingPosts /\ userPosts = 1 /\ pvError = NoText

ToggleEdit == PostFormUntouched /\ handleEditToggle

TypeProfile == PostFormUntouched /\ TypeEditForm

SubmitProfile == PostFormUntouched /\ handleProfileUpdate

BeginEditPost == ProfileFormUntouched /\ StartEdit

\* The loaded Profile view: the profile form and the post form, one form at a
\* time.
NextEdit ==
    \/ ToggleEdit
    \/ TypeProfile
    \/ SubmitProfile
    \/ handleProfileUpdateSettles
    \/ handleProfileUpdateRefreshes
    \/ BeginEditPost
    \/ TypeEditPost
    \/ SelectEditImage
    \/ ReaderEnds
    \/ RemoveEditImage
    \/ handleCancelEdit
    \/ SubmitEditPost
    \/ handleUpdatePostSettles
    \/ fetchUserPostsSettles

SpecEdit == InitProfileLoaded /\ [][NextEdit]_vars

\* The loaded Profile view: the two forms without images, and the pagination
\* of the user's posts.
NextSubmit ==
    \/ ToggleEdit
    \/ TypeProfile
    \/ SubmitProfile
    \/ handleProfileUpdateSettles
    \/ handleProfileUpdateRefreshes
    \/ BeginEditPost
    \/ TypeEditPost
    \/ handleCancelEdit
    \/ SubmitEditPost
    \/ handleUpdatePostSettles
    \/ ProfilePageChange
    \/ fetchUserPostsSettles

SpecSubmit == InitProfileLoaded /\ [][NextSubmit]_vars

\* The three image inputs of the loaded views.
InitLoaded == InitPostsLoaded \/ InitProfileLoaded

NextImages ==
    \/ handleToggleForm
    \/ SelectImage
    \/ RemoveImage
    \/ StartEdit
    \/ handleCancelEdit
    \/ SelectEditImage
    \/ RemoveEditImage
    \/ SelectPicture
    \/ CancelPicture
    \/ ReaderEnds

SpecImages == InitLoaded /\ [][NextImages]_vars

\* apiRequest in isolation: fetch settles with any response, apiRequest settles.
InitApi ==
    /\ InitApp
    /\ fetched \in AllResponses
    /\ settled = PendingOutcome

apiRequest ==
    /\ settled = PendingOutcome
    /\ settled' = ApiResponse(fetched)
    /\ lastOp' = Op("apiRequest", {})
    /\ UNCHANGED <<sessionVars, netVars, ret, profileVars, fetched, viewVars>>

NextApi == apiRequest

SpecApi == InitApi /\ [][NextApi]_vars

\* ------------------------------------------------------------------ claims
\* apiRequest throws: no response, a non-2xx status, or a body that is not JSON.
ApiFails(resp) ==
    \/ ~resp.received
    \/ resp.status < 200
    \/ resp.status > 299
    \/ resp.body.shape = "nonjson"

\* The user object a /api/user/profile response carries.
FetchedProfile(resp) ==
    IF resp.body.shape = "null" THEN "null"
    ELSE IF resp.body.user = "undefined" THEN "{}"
    ELSE resp.body.user

\* C1: every request apiRequest issues carries the Authorization header
\* "Bearer t" when the Token Store holds t at the moment of the call, and no
\* Authorization header when no token is stored, after any sequence of
\* login / signup / logout.
C1_AuthorizationHeader ==
    [][\A r \in BagToSet(inflight') :
          CopiesIn(r, inflight') > CopiesIn(r, inflight) =>
              r.headers.authorization =
                  IF token = "null" THEN <<>> ELSE <<"Bearer", token>>]_vars

\* A token obtained by a login is attached to the next request.
C1_Witness ==
    /\ lastOp.name = "refreshProfile"
    /\ ret.op \in {"login", "signup"} /\ ret.success
    /\ token \in Tokens
    /\ \E r \in BagToSet(inflight) :
          r.op = "refreshProfile" /\ r.headers.authorization = <<"Bearer", token>>

\* C2: when the startup profile fetch fails (401 or any other failure), the
\* stored token is cleared and the session is left with isAuthenticated = false
\* and loading = false.
C2_ProbeFailureClearsToken ==
    lastOp.name = "probeSettled" /\ ApiFails(lastOp.resp) =>
        token = "null" /\ isAuthenticated = FALSE /\ loading = FALSE

C2_Witness ==
    /\ lastOp.name = "probeSettled"
    /\ lastOp.resp.received /\ lastOp.resp.status = 401
    /\ token = "null" /\ ~isAuthenticated /\ ~loading

\* C3: loading is true from startup until the startup probe finishes and false
\* ever after; with no stored token the probe issues no request and ends
\* anonymous; with a stored token it fetches the profile, and a successful
\* fetch ends authenticated with user equal to the fetched profile.
C3_SessionLifecycle ==
    /\ [](loading = (probePc # "done"))
    /\ [][loading = FALSE => loading' = FALSE]_vars
    /\ [][probePc = "init" /\ probePc' # "init" =>
            IF token = "null"
            THEN /\ probePc' = "done"
                 /\ issued' = issued /\ inflight' = inflight
                 /\ isAuthenticated' = FALSE /\ user' = "null" /\ loading' = FALSE
            ELSE /\ probePc' = "wait"
                 /\ issued' = issued + 1
                 /\ loading' = TRUE]_vars
    /\ [](lastOp.name = "probeSettled" /\ ~ApiFails(lastOp.resp) =>
            isAuthenticated = TRUE /\ user = FetchedProfile(lastOp.resp))

C3_Witness ==
    /\ lastOp.name = "probeSettled"
    /\ probePc = "done" /\ ~loading
    /\ isAuthenticated /\ user \in Users
    /\ user = lastOp.resp.body.user

\* C4: right after the Session Context's logout is called, from any state and
\* with or without requests in flight, user = null, isAuthenticated = false and
\* no token is stored; the call issues no network request.
C4_LogoutIsLocal ==
    /\ []("logout" \in lastOp.ctx =>
            user = "null" /\ isAuthenticated = FALSE /\ token = "null")
    /\ [][lastOp'.name = "logout" => issued' = issued /\ inflight' = inflight]_vars
    /\ []["logout" \in lastOp'.ctx => issued' = issued]_vars

\* Logout while the session is still loading and the probe is in flight.
C4_Witness ==
    /\ lastOp.name = "logout"
    /\ loading
    /\ inflight # EmptyBag
    /\ user = "null" /\ ~isAuthenticated /\ token = "null"

C6_LoginFailureLeavesSession ==
    [][/\ lastOp'.name = "loginSettled"
       /\ ApiFails(lastOp'.resp) \/ lastOp'.resp.body.shape = "null"
       => /\ ret'.op \in {"login", "signup"}
          /\ ret'.success = FALSE
          /\ ret'.error # <<>>
          /\ user' = user /\ isAuthenticated' = isAuthenticated /\ token' = token]_vars

\* A failed login with a token in the store and an authenticated session.
C6_Witness ==
    /\ lastOp.name = "loginSettled"
    /\ lastOp.resp.received /\ lastOp.resp.status = 401
    /\ ret.success = FALSE /\ ret.error # <<>>
    /\ token \in Tokens /\ isAuthenticated

\* C7: refreshProfile never changes isAuthenticated or the stored token; on
\* success it only replaces user with the fetched profile; on failure (401
\* included) it returns {success: false, error} and leaves user alone.
C7_RefreshProfileFrame ==
    [][/\ lastOp'.name \in {"refreshProfile", "refreshSettled"}
       => /\ isAuthenticated' = isAuthenticated
          /\ token' = token
          /\ lastOp'.name = "refreshProfile" => user' = user
          /\ lastOp'.name = "refreshSettled" =>
                IF ApiFails(lastOp'.resp)
                THEN /\ user' = user
                     /\ ret'.op = "refreshProfile"
                     /\ ret'.success = FALSE /\ ret'.error # <<>>
                ELSE /\ user' = FetchedProfile(lastOp'.resp)
                     /\ ret'.op = "refreshProfile" /\ ret'.success]_vars

\* A 401 on refresh, and the session is still logged in.
C7_Witness ==
    /\ lastOp.name = "refreshSettled"
    /\ lastOp.resp.received /\ lastOp.resp.status = 401
    /\ ret.op = "refreshProfile" /\ ~ret.success
    /\ isAuthenticated /\ token \in Tokens /\ user \in Users

\* C8 as stated: user and isAuthenticated change only in steps that go through
\* the Session Context's login, signup, logout, refreshProfile or its startup
\* probe.
C8_Original ==
    [][user' # user \/ isAuthenticated' # isAuthenticated =>
          lastOp'.ctx \cap {"login", "signup", "logout", "refreshProfile", "probe"} # {}]_vars

\* C8 amended: user changes only through the Session Context's login, signup,
\* logout, refreshProfile, startup probe or updateUser (which view code calls);
\* isAuthenticated changes only through login, signup, logout and the probe.
C8_SessionWriters ==
    /\ [][user' # user =>
            lastOp'.ctx \cap {"login", "signup", "logout", "refreshProfile", "probe",
                              "updateUser"} # {}]_vars
    /\ [][isAuthenticated' # isAuthenticated =>
            lastOp'.ctx \cap {"login", "signup", "logout", "probe"} # {}]_vars

\* The Profile view's fetch put a user in a session nothing else had written.
C8_Witness ==
    /\ lastOp.name = "fetchProfileSettled"
    /\ lastOp.ctx = {"updateUser"}
    /\ ret.op = "none"
    /\ ~isAuthenticated
    /\ user \in Users

PostRequests == { r \in BagToSet(inflight) : r.op \in {"createPost", "updatePost"} }

C10_ErrorCarriesStatus ==
    settled # PendingOutcome /\ fetched.received /\ (fetched.status < 200 \/ fetched.status > 299)
    => /\ settled.ok = FALSE
       /\ settled.error.status = fetched.status
       /\ fetched.body.shape # "nonjson" => settled.error.data = fetched.body

\* C11: on a non-2xx response the error message is the JSON body's `error`
\* field if present, else its `message` field, else the generic
\* "Server error: <status> <statusText>"; the generic message is also used
\* when the body cannot be parsed as JSON.
C11_ErrorMessageOrder ==
    settled # PendingOutcome /\ fetched.received /\ (fetched.status < 200 \/ fetched.status > 299)
    => /\ settled.ok = FALSE
       /\ settled.error.message =
            IF fetched.body.shape # "nonjson" /\ fetched.body.error # <<>>
            THEN fetched.body.error
            ELSE IF fetched.body.shape # "nonjson" /\ fetched.body.message # <<>>
            THEN fetched.body.message
            ELSE <<"Server", "error:", StatusStr(fetched.status)>> \o
                 (IF fetched.statusText = "" THEN <<>> ELSE <<fetched.statusText>>)

\* C13: when fetch fails with no response received, apiRequest fails with the
\* "Cannot connect to server" error, which carries no HTTP status, and no
\* received response makes apiRequest fail with that error.
C13_ConnectivityErrorDistinct ==
    settled # PendingOutcome =>
        IF ~fetched.received
        THEN /\ settled.ok = FALSE
             /\ settled.error.message = <<"Cannot", "connect", "to", "server">>
             /\ settled.error.status = 0
        ELSE settled.ok = FALSE =>
                settled.error.message # <<"Cannot", "connect", "to", "server">>

\* C20: a 2xx response whose body is not parseable JSON (an empty body
\* included) makes apiRequest fail with "Invalid response from server", an
\* error without HTTP status that is not the connectivity error.
C20_InvalidResponse ==
    /\ settled # PendingOutcome
    /\ fetched.received /\ fetched.status >= 200 /\ fetched.status <= 299
    /\ fetched.body.shape = "nonjson"
    => /\ settled.ok = FALSE
       /\ settled.error.message = <<"Invalid", "response", "from", "server">>
       /\ settled.error.status = 0
       /\ settled.error.message # <<"Cannot", "connect", "to", "server">>

C20_Witness ==
    /\ fetched.received /\ fetched.status = 200 /\ fetched.body.shape = "nonjson"
    /\ settled.ok = FALSE
    /\ settled.error.message = <<"Invalid", "response", "from", "server">>

\* C14: a Domain API operation given a missing required argument fails with a
\* local error and issues no request: createPost with an empty title or
\* content with "Title and content are required"; getPostById, updatePost and
\* deletePost without id with "Post id is required"; uploadProfilePicture
\* without file with "Profile picture is required".
C14_LocalValidation ==
    [][/\ \A t \in {"", "T"}, c \in {"", "C"}, i \in {"", "img"} :
            createPost(t, c, i) /\ (t = "" \/ c = "") =>
                /\ ret' = [op |-> "createPost", success |-> FALSE,
                           error |-> <<"Title", "and", "content", "are", "required">>]
                /\ inflight' = inflight /\ issued' = issued
       /\ \A p \in Payloads :
            updatePost(0, p) =>
                /\ ret' = [op |-> "updatePost", success |-> FALSE,
                           error |-> <<"Post", "id", "is", "required">>]
                /\ inflight' = inflight /\ issued' = issued
       /\ getPostById(0) =>
                /\ ret' = [op |-> "getPostById", success |-> FALSE,
                           error |-> <<"Post", "id", "is", "required">>]
                /\ inflight' = inflight /\ issued' = issued
       /\ deletePost(0) =>
                /\ ret' = [op |-> "deletePost", success |-> FALSE,
                           error |-> <<"Post", "id", "is", "required">>]
                /\ inflight' = inflight /\ issued' = issued
       /\ uploadProfilePicture("") =>
                /\ ret' = [op |-> "uploadProfilePicture", success |-> FALSE,
                           error |-> <<"Profile", "picture", "is", "required">>]
                /\ inflight' = inflight /\ issued' = issued]_vars

\* A delete without id fails locally while an earlier request is in flight.
C14_Witness ==
    /\ lastOp.name = "deletePost"
    /\ ret = [op |-> "deletePost", success |-> FALSE,
              error |-> <<"Post", "id", "is", "required">>]
    /\ issued = 1
    /\ \E r \in BagToSet(inflight) : r.op = "createPost"

\* C16: updatePost with a valid id and a payload that provides none of title,
\* content and image (a null / undefined payload included) fails with "Title,
\* content, or image must be provided" and issues no request.
C16_UpdateNeedsAField ==
    [][\A p \in Payloads :
          updatePost(1, p) /\ (~p.present \/ (p.title = "" /\ p.content = "" /\ p.image = "")) =>
              /\ ret' = [op |-> "updatePost", success |-> FALSE,
                         error |-> <<"Title,", "content,", "or", "image", "must", "be", "provided">>]
              /\ inflight' = inflight /\ issued' = issued]_vars

C16_Witness ==
    /\ lastOp.name = "updatePost"
    /\ ret = [op |-> "updatePost", success |-> FALSE,
              error |-> <<"Title,", "content,", "or", "image", "must", "be", "provided">>]
    /\ issued = 0 /\ inflight = EmptyBag

\* C12: every 401 response to a request a view started (the posts list fetch and
\* the post creation in Posts, the profile fetch and the post update in
\* Profile) makes the view call logout and navigate to /login, whatever the
\* message of the error.
C12_UnauthorizedForcesLogout ==
    /\ lastOp.name \in {"fetchPostsSettled", "handleCreatePostSettled",
                        "fetchProfileSettled", "handleUpdatePostSettled"}
    /\ lastOp.resp.received /\ lastOp.resp.status = 401
    => /\ "logout" \in lastOp.ctx
       /\ navigated = "/login"
       /\ user = "null" /\ isAuthenticated = FALSE /\ token = "null"

\* C18: handlePageChange(n), in the posts feed and in the profile's post list,
\* sets the current page to n and issues the list request for page n if
\* 1 <= n <= pagination.totalPages; for any other n (0, totalPages + 1, any n
\* while there is no pagination) it changes no page and issues no request.
C18_PageChangeInRange ==
    [][\A n \in 0 .. 3 :
          /\ PostsHandlePageChange(n) =>
                IF n >= 1 /\ n <= pagination.totalPages
                THEN /\ currentPage' = n
                     /\ \E r \in BagToSet(inflight') :
                           /\ r.op = "fetchPosts" /\ PageOfUrl(r.endpoint) = n
                           /\ CopiesIn(r, inflight') = CopiesIn(r, inflight) + 1
                ELSE currentPage' = currentPage /\ inflight' = inflight /\ issued' = issued
          /\ ProfileHandlePageChange(n) =>
                IF n >= 1 /\ n <= postsPagination.totalPages
                THEN /\ pvPage' = n
                     /\ \E r \in BagToSet(inflight') :
                           /\ r.op = "fetchUserPosts" /\ PageOfUrl(r.endpoint) = n
                           /\ CopiesIn(r, inflight') = CopiesIn(r, inflight) + 1
                ELSE pvPage' = pvPage /\ inflight' = inflight /\ issued' = issued]_vars

\* Next was clicked on page 2 of 2 of the profile's list (the pagination shown
\* is still that of page 1): page 3 was refused.
C18_Witness ==
    /\ lastOp.name = "ProfileHandlePageChange"
    /\ pvPage = 2
    /\ postsPagination = [currentPage |-> 1, totalPages |-> 2,
                          hasPreviousPage |-> FALSE, hasNextPage |-> TRUE]
    /\ ~loadingPosts
    /\ inflight = EmptyBag

\* C19: when the profile, stats or user-posts endpoint answers 404, the Profile
\* view falls back to defaults: the profile becomes the session user's data
\* (so the view is not left with an error and no profile), stats become
\* {total_posts: the profile's post count or 0, latest_post_date: null}, and
\* the post list becomes empty.
C19_NotFoundDegrades ==
    lastOp.resp.received /\ lastOp.resp.status = 404 =>
        /\ lastOp.name = "fetchProfileSettled" =>
              /\ profile = user
              /\ profile \notin {"null", "undefined"}
        /\ lastOp.name = "fetchStatsSettled" =>
              stats = [kind |-> "object",
                       total_posts |-> IF PostCountOf(profile) = -1 THEN 0
                                       ELSE PostCountOf(profile),
                       latest_post_date |-> "null"]
        /\ lastOp.name = "fetchUserPostsSettled" =>
              userPosts = 0 /\ postsPagination.totalPages = 0

\* C15: submitting the profile form with username, email and bio equal to the
\* profile's values (a null bio counts as ''), or the post form with title and
\* content equal to the listed post's and no image selected, sets the form's
\* error to "No changes to save", issues no request, leaves the in-progress
\* flag false and keeps the form in edit mode.
C15_NoChangesRejected ==
    [][/\ (/\ handleProfileUpdate
           /\ TruthyUser(profile)
           /\ editForm.username = UsernameOf(profile)
           /\ editForm.email = EmailOf(profile)
           /\ editForm.bio = (IF BioOf(profile) = Null THEN "" ELSE BioOf(profile)))
          => /\ editError' = <<"No", "changes", "to", "save">>
             /\ saving' = FALSE
             /\ isEditing /\ isEditing'
             /\ inflight' = inflight /\ issued' = issued
       /\ (/\ handleUpdatePost(editingPostId)
           /\ editPost.title = TitleOf(editingPostId)
           /\ editPost.content = ContentOf(editingPostId)
           /\ editPost.image = NoFile)
          => /\ postEditError' = <<"No", "changes", "to", "save">>
             /\ updating' = FALSE
             /\ editingPostId # 0 /\ editingPostId' = editingPostId
             /\ inflight' = inflight /\ issued' = issued]_vars

\* The untouched profile form of a user whose bio is null was submitted.
C15_Witness ==
    /\ lastOp.name = "handleProfileUpdate"
    /\ BioOf(profile) = Null
    /\ editForm = EditForm(UsernameOf(profile), EmailOf(profile), "")
    /\ editError = NoChangesToSave
    /\ isEditing /\ ~saving
    /\ inflight = EmptyBag

\* C17: in the create-post, edit-post and profile-picture forms, selecting a
\* file whose type is not JPEG, PNG, GIF or WebP, or whose size is above
\* 5 * 1024 * 1024 bytes, sets the form's error, starts no read, and leaves
\* the preview and the pending file as they were; a file of an allowed type
\* and of at most that size (exactly that size included) becomes the pending
\* file.
C17_InvalidFileRejected ==
    [][\A f \in Files :
         LET refused == \/ FileType(f) \notin {"image/jpeg", "image/png", "image/gif",
                                               "image/webp"}
                        \/ FileSize(f) > 5 * 1024 * 1024 IN
         /\ handleImageChange(f) =>
               IF refused
               THEN /\ formError' # NoText
                    /\ imagePreview' = imagePreview
                    /\ newPost'.image = newPost.image
                    /\ readers' = readers
               ELSE newPost'.image = f /\ <<"create", f>> \in readers'
         /\ handleEditImageChange(f) =>
               IF refused
               THEN /\ postEditError' # NoText
                    /\ editImagePreview' = editImagePreview
                    /\ editPost'.image = editPost.image
                    /\ readers' = readers
               ELSE editPost'.image = f /\ <<"edit", f>> \in readers'
         /\ handleProfilePictureChange(f) =>
               IF refused
               THEN /\ pictureError' # NoText
                    /\ profilePicturePreview' = profilePicturePreview
                    /\ profilePictureFile' = profilePictureFile
                    /\ readers' = readers
               ELSE profilePictureFile' = f /\ <<"picture", f>> \in readers'
      ]_vars

\* A file of 5 MiB + 1 byte was refused by the post form while a.png was the
\* pending file and its preview was shown; a file of exactly 5 MiB is the
\* pending profile picture.
C17_Witness ==
    /\ lastOp.name = "handleEditImageChange"
    /\ postEditError = FileTooLarge
    /\ editPost.image = "a.png"
    /\ editImagePreview = DataUrl("a.png")
    /\ profilePictureFile = "b.jpg"
    /\ FileSize("b.jpg") = 5 * 1024 * 1024

\* C21: a submission of the profile form sends a request with exactly the
\* fields among username, email and bio whose draft value differs from the
\* profile's value (a null bio shows as ''); a submission of the post form sends
\* one with exactly the fields among title and content whose draft value
\* differs from the listed post's, plus the image when one is selected.
C21_SendsExactlyChangedFields ==
    [][/\ (handleProfileUpdate /\ TruthyUser(profile)) =>
             LET last == [username |-> UsernameOf(profile),
                          email |-> EmailOf(profile),
                          bio |-> IF BioOf(profile) = Null THEN "" ELSE BioOf(profile)]
                 changed == { f \in {"username", "email", "bio"} : editForm[f] # last[f] }
             IN  IF changed = {}
                 THEN inflight' = inflight
                 ELSE \E req \in BagToSet(inflight') :
                         /\ inflight' = inflight (+) SetToBag({req})
                         /\ req.method = "PUT"
                         /\ req.endpoint = "/api/user/profile"
                         /\ req.body.fields = changed
       /\ handleUpdatePost(editingPostId) =>
             LET last == [title |-> TitleOf(editingPostId),
                          content |-> ContentOf(editingPostId)]
                 changed == { f \in {"title", "content"} : editPost[f] # last[f] } \cup
                            (IF editPost.image # NoFile THEN {"image"} ELSE {})
             IN  IF changed = {}
                 THEN inflight' = inflight
                 ELSE \E req \in BagToSet(inflight') :
                         /\ inflight' = inflight (+) SetToBag({req})
                         /\ req.method = "PUT"
                         /\ req.endpoint = PostUrl(editingPostId)
                         /\ req.body.fields = changed]_vars

\* The post form was submitted with a new title and an image, the content as
\* listed: the request carries title and image.
C21_Witness ==
    /\ lastOp.name = "handleUpdatePost"
    /\ editPost.title # TitleOf(editingPostId)
    /\ editPost.content = ContentOf(editingPostId)
    /\ editPost.image # NoFile
    /\ \E req \in BagToSet(inflight) :
          req.op = "handleUpdatePost" /\ req.body.fields = {"title", "image"}

\* C22: when the response to a submitted edit is a 2xx with the updated record,
\* the profile form leaves edit mode with profile and session user set from
\* the response, and the post form leaves edit mode with the user's posts
\* requested again for the current page; when the submission fails (no
\* response, a non-2xx status, a body that is not JSON) the form stays in edit
\* mode, its draft is unchanged and its error is set.
C22_EditOutcome ==
    [][/\ \A req \in BagToSet(inflight), resp \in UserResponses :
            handleProfileUpdateSettled(req, resp) =>
               /\ (~ApiFails(resp) /\ resp.body.shape = "object") =>
                     /\ ~isEditing'
                     /\ profile' = resp.body.user
                     /\ user' = resp.body.user
               /\ ApiFails(resp) =>
                     /\ isEditing /\ isEditing'
                     /\ editForm' = editForm
                     /\ editError' # NoText
       /\ \A req \in BagToSet(inflight), resp \in PlainResponses :
            handleUpdatePostSettled(req, resp) =>
               /\ (~ApiFails(resp) /\ resp.body.shape = "object") =>
                     /\ editingPostId' = 0
                     /\ \E r \in BagToSet(inflight') :
                           /\ r.op = "fetchUserPosts"
                           /\ r.endpoint = UserPostsUrl(pvPage')
                           /\ CopiesIn(r, inflight') > CopiesIn(r, inflight)
               /\ ApiFails(resp) =>
                     /\ editingPostId # 0 /\ editingPostId' = editingPostId
                     /\ editPost' = editPost
                     /\ postEditError' # NoText]_vars

\* C23: once login or signup has returned success, with the session
\* authenticated and a token stored, only a step that invokes logout ends that:
\* the completion of the startup probe, sent with the older token, neither
\* removes the stored token nor sets isAuthenticated to false.
C23_LoginSurvivesProbe ==
    [][(/\ ret.op \in {"login", "signup"} /\ ret.success
        /\ isAuthenticated /\ token # NoToken
        /\ (~isAuthenticated' \/ token' = NoToken))
       => "logout" \in lastOp'.ctx]_vars

\* C24: a logout leaves the session anonymous (user null, isAuthenticated
\* false, no token stored) and it is still anonymous after the step that
\* follows the logout, whatever request that was in flight at the logout
\* completes in that step (invoking login or signup only sends a request).
C24_LogoutStaysAnonymous ==
    []["logout" \in lastOp.ctx =>
          /\ user' = Null
          /\ isAuthenticated' = FALSE
          /\ token' = NoToken]_vars

\* C25: in every reachable state of the Session Context, isAuthenticated =
\* false implies user = null.
C25_AnonymousHasNoUser == ~isAuthenticated => user = Null

\* C26: for every call in which a response was received, whatever its status
\* and body (a JSON null included), apiRequest either returns the parsed body
\* or fails with an error that is not the "Cannot connect to server" error.
C26_ConnectivityOnlyWithoutResponse ==
    settled # PendingOutcome /\ fetched.received =>
        \/ settled.ok /\ settled.data = fetched.body
        \/ /\ ~settled.ok
           /\ settled.error.message # <<"Cannot", "connect", "to", "server">>

\* C27: when the Posts or the Profile view calls logout from one of its
\* handlers (posts list fetch, post creation, profile fetch, post update), the
\* request it handles was answered with status 401: no other status, no
\* connection failure and no malformed response makes it log out.
C27_LogoutOnlyOnUnauthorized ==
    /\ lastOp.name \in {"fetchPostsSettled", "handleCreatePostSettled",
                        "fetchProfileSettled", "handleUpdatePostSettled"}
    /\ "logout" \in lastOp.ctx
    => lastOp.resp.received /\ lastOp.resp.status = 401

\* C28: in the posts feed and in the profile's post list, when a list request
\* has just been answered with a page and no list request is outstanding, the
\* pagination and the posts shown are those of the current page.
C28_ListShowsCurrentPage ==
    /\ (/\ lastOp.name = "fetchPostsSettled"
        /\ lastOp.resp.received /\ Ok(lastOp.resp.status)
        /\ lastOp.resp.body.shape = "object"
        /\ pagination # NoPagination
        /\ \A r \in BagToSet(inflight) : r.op # "fetchPosts")
       => /\ pagination.currentPage = currentPage
          /\ posts = (IF currentPage <= pagination.totalPages THEN currentPage ELSE 0)
    /\ (/\ lastOp.name = "fetchUserPostsSettled"
        /\ lastOp.resp.received /\ Ok(lastOp.resp.status)
        /\ lastOp.resp.body.shape = "object"
        /\ postsPagination # NoPagination
        /\ \A r \in BagToSet(inflight) : r.op # "fetchUserPosts")
       => /\ postsPagination.currentPage = pvPage
          /\ userPosts = (IF pvPage <= postsPagination.totalPages THEN pvPage ELSE 0)

\* C29: in the create-post, edit-post and profile-picture forms the preview
\* is null whenever the pending file is null, and once no preview read is
\* running the preview shown is that of the pending file: the late completion
\* of the read of a file that was replaced, removed or dropped by a cancel
\* does not set it.
C29_PreviewOfPendingFile ==
    /\ newPost.image = NoFile => imagePreview = NoPreview
    /\ editPost.image = NoFile => editImagePreview = NoPreview
    /\ profilePictureFile = NoFile => profilePicturePreview = NoPreview
    /\ readers = {} =>
          /\ imagePreview # NoPreview => imagePreview = DataUrl(newPost.image)
          /\ editImagePreview # NoPreview => editImagePreview = DataUrl(editPost.image)
          /\ profilePicturePreview # NoPreview =>
                profilePicturePreview = DataUrl(profilePictureFile)

\* C30: when the update of a post succeeds while the post form is open on
\* another post (its edit was started while the request was in flight), that
\* edit session stays: editingPostId and the draft are unchanged.
C30_UpdateClosesOnlyItsPost ==
    [][\A req \in BagToSet(inflight), resp \in PlainResponses :
         (/\ handleUpdatePostSettled(req, resp)
          /\ ~ApiFails(resp)
          /\ editingPostId # 0
          /\ req.endpoint # PostUrl(editingPostId))
         => /\ editingPostId' = editingPostId
            /\ editPost' = editPost]_vars

====
